---- MODULE Spec2Model ----
(***************************************************************************)
(* A model of util/coordinate_calculation.cpp (osrm::util::                *)
(* coordinate_calculation): the geometry and distance functions over       *)
(* fixed-point geographic coordinates.                                     *)
(*                                                                         *)
(* A Coordinate is a pair <<lon, lat>> of int32 fixed-point values         *)
(* (degrees * COORDINATE_PRECISION).  A C++ double is modelled bit-exactly *)
(* for the operations + - * / and comparisons: a finite double is          *)
(* <<sign, mantissa, exponent>> with value sign * mantissa * 2^exponent,   *)
(* mantissa a 53-bit natural number (2^52 <= mantissa < 2^53) kept as a    *)
(* little-endian sequence of 15-bit limbs, and every operation rounds to   *)
(* nearest, ties to even, as IEEE-754 binary64 does.  Zero is              *)
(* <<0, <<>>, 0>>; signed zeros, infinities and subnormals do not occur on *)
(* the inputs of the model and are not represented.  The results of the C  *)
(* library's functions (sin, cos, pow, sqrt, atan2, hypot) are tabulated   *)
(* for the arguments the inputs lead to; NaN, which sqrt returns for a     *)
(* negative argument, is the value DNaN.                                   *)
(***************************************************************************)
EXTENDS Integers, Sequences, FiniteSets, TLC

(***************************************************************************)
(* Natural numbers of any size (the integers TLC computes with have 32     *)
(* bits): little-endian sequences of limbs, without leading zero limbs.    *)
(***************************************************************************)
Base == 2^15

LimbBits == CHOOSE k \in 1..30 : 2^k = Base

Max(x, y) == IF x < y THEN y ELSE x

\* limb i of a, zero above its length
Limb(a, i) == IF i <= Len(a) THEN a[i] ELSE 0

\* a up to its top limb that is not zero
BNorm(a) ==
    SubSeq(a, 1, CHOOSE n \in 0..Len(a) :
                    (n = 0 \/ a[n] # 0) /\ \A j \in (n + 1)..Len(a) : a[j] = 0)

\* for 0 <= n < 2^31
BFromNat(n) == BNorm(<<n % Base, (n \div Base) % Base, n \div (Base * Base)>>)

\* for a < 2^31
BToNat(a) == Limb(a, 1) + Base * Limb(a, 2) + Base * Base * Limb(a, 3)

\* the carry into limb i, for s the sums of the limbs of two numbers: some
\* limb below i overflows and every limb between them passes the carry on
Carry(s, i) ==
    \E j \in 1..(i - 1) :
        s[j] >= Base /\ \A k \in (j + 1)..(i - 1) : s[k] >= Base - 1

BCarry(s) ==
    BNorm([i \in 1..(Len(s) + 1) |->
             (Limb(s, i) + (IF Carry(s, i) THEN 1 ELSE 0)) % Base])

BAdd(a, b) ==
    IF a = <<>> THEN b
    ELSE IF b = <<>> THEN a
    ELSE BCarry(<<>> \o [i \in 1..Max(Len(a), Len(b)) |-> Limb(a, i) + Limb(b, i)])

\* the borrow from limb i of a - b
Borrow(a, b, i) ==
    \E j \in 1..(i - 1) :
        a[j] < Limb(b, j) /\ \A k \in (j + 1)..(i - 1) : a[k] <= Limb(b, k)

\* a - b, for a >= b
BSub(a, b) ==
    IF b = <<>> THEN a
    ELSE BNorm([i \in 1..Len(a) |->
                  (a[i] - Limb(b, i) - (IF Borrow(a, b, i) THEN 1 ELSE 0) + Base)
                  % Base])

BCmpAt(a, b, i) == IF a[i] < b[i] THEN -1 ELSE 1

\* -1, 0, 1 as a < b, a = b, a > b
BCmp(a, b) ==
    IF Len(a) # Len(b) THEN (IF Len(a) < Len(b) THEN -1 ELSE 1)
    ELSE IF a = b THEN 0
    ELSE BCmpAt(a, b, CHOOSE i \in 1..Len(a) :
                        a[i] # b[i] /\ \A j \in (i + 1)..Len(a) : a[j] = b[j])

\* a * k, for 0 <= k <= Base: the low halves of the limb products plus their
\* high halves one limb up
BMulLimb(a, k) ==
    IF a = <<>> \/ k = 0 THEN <<>>
    ELSE BAdd(BNorm([i \in 1..Len(a) |-> (a[i] * k) % Base]),
              BNorm(<<0>> \o [i \in 1..Len(a) |-> (a[i] * k) \div Base]))

BMulAcc(a, k, rest) ==
    IF rest = <<>> THEN BMulLimb(a, k) ELSE BAdd(BMulLimb(a, k), <<0>> \o rest)

\* a times the limbs j.. of b
RECURSIVE BMulFrom(_, _, _)
BMulFrom(a, b, j) ==
    IF j > Len(b) THEN <<>> ELSE BMulAcc(a, b[j], BMulFrom(a, b, j + 1))

\* a * 2^s
BShl(a, s) ==
    IF a = <<>> THEN a
    ELSE [i \in 1..(s \div LimbBits) |-> 0] \o BMulLimb(a, 2^(s % LimbBits))

\* the limbs from q + 1 up of x, moved down by r bits
BShrBits(x, r) ==
    BNorm([i \in 1..Len(x) |->
             (x[i] \div 2^r) + (Limb(x, i + 1) % 2^r) * 2^(LimbBits - r)])

\* floor(a / 2^s)
BShr(a, s) ==
    IF s \div LimbBits >= Len(a) THEN <<>>
    ELSE BShrBits(SubSeq(a, s \div LimbBits + 1, Len(a)), s % LimbBits)

BitLen(a) ==
    IF a = <<>> THEN 0
    ELSE LimbBits * (Len(a) - 1)
         + (CHOOSE k \in 1..LimbBits : 2^(k - 1) <= a[Len(a)] /\ a[Len(a)] < 2^k)

\* bit i (from 0) of a
BBit(a, i) == (Limb(a, i \div LimbBits + 1) \div 2^(i % LimbBits)) % 2

\* some bit of a below bit k is set
BLowBits(a, k) == \E i \in 0..(k - 1) : BBit(a, i) = 1

(***************************************************************************)
(* Long division, one limb of the quotient per limb of the dividend.  The  *)
(* divisor b has its top limb >= Base / 2 and the running remainder r is   *)
(* below Base * b, so the quotient of the top two limbs of r by the top    *)
(* limb of b is the digit or at most 2 above it.                           *)
(***************************************************************************)
BDigitEst(r, b) ==
    IF Limb(r, Len(b) + 1) >= b[Len(b)] THEN Base - 1
    ELSE (Limb(r, Len(b) + 1) * Base + Limb(r, Len(b))) \div b[Len(b)]

\* the largest d with d * b <= r, given the estimate q
BDigitFrom(r, b, q) ==
    CHOOSE d \in Max(q - 2, 0)..q :
        BCmp(BMulLimb(b, d), r) <= 0 /\ BCmp(BMulLimb(b, d + 1), r) > 0

\* the quotient q and the digit d under it, and what is left of r
BDivEmit(q, b, r, d) == <<BNorm(<<d>> \o q), BSub(r, BMulLimb(b, d))>>

BDivLimb(q, b, r) == BDivEmit(q, b, r, BDigitFrom(r, b, BDigitEst(r, b)))

\* one limb x more of the dividend under prev = <<quotient, remainder>>
BDivStep(x, b, prev) ==
    IF prev[2] = <<>> /\ x = 0 THEN <<IF prev[1] = <<>> THEN <<>> ELSE <<0>> \o prev[1], <<>>>>
    ELSE BDivLimb(prev[1], b, BNorm(<<x>> \o prev[2]))

\* <<floor(x / b), x mod b>> for x the limbs i.. of a
RECURSIVE BDivFrom(_, _, _)
BDivFrom(a, b, i) ==
    IF Len(a) - i + 1 < Len(b) THEN <<<<>>, SubSeq(a, i, Len(a))>>
    ELSE BDivStep(a[i], b, BDivFrom(a, b, i + 1))

\* the bits the top limb of b is short of
BDivShift(b) == LimbBits * Len(b) - BitLen(b)

BDivUnshift(qr, sh) == <<qr[1], BShr(qr[2], sh)>>

\* <<floor(a / b), a mod b>> for b > 0
BDivMod(a, b) ==
    IF BCmp(a, b) < 0 THEN <<<<>>, a>>
    ELSE BDivUnshift(BDivFrom(BShl(a, BDivShift(b)), BShl(b, BDivShift(b)), 1),
                     BDivShift(b))

(***************************************************************************)
(* IEEE-754 binary64 arithmetic, round to nearest, ties to even.           *)
(***************************************************************************)
MantBits == 53

DZero == <<0, <<>>, 0>>

\* n = q * 2^sh + r with r < 2^sh: r is above the half of 2^sh, or is the half
\* and q is odd
RoundsUp(n, sh, q) ==
    BBit(n, sh - 1) = 1 /\ (Limb(q, 1) % 2 = 1 \/ BLowBits(n, sh - 1))

DRoundCarry(s, q, e) ==
    IF BitLen(q) > MantBits THEN <<s, BShr(q, 1), e + 1>> ELSE <<s, q, e>>

DRoundQuot(s, n, e, sh, q) ==
    DRoundCarry(s, IF RoundsUp(n, sh, q) THEN BAdd(q, <<1>>) ELSE q, e + sh)

DRoundLen(s, n, e, L) ==
    IF L <= MantBits THEN <<s, BShl(n, MantBits - L), e - (MantBits - L)>>
    ELSE DRoundQuot(s, n, e, L - MantBits, BShr(n, L - MantBits))

\* the double nearest to s * n * 2^e
DRound(s, n, e) ==
    IF s = 0 \/ n = <<>> THEN DZero ELSE DRoundLen(s, n, e, BitLen(n))

AbsInt(x) == IF x < 0 THEN -x ELSE x

\* static_cast<double>(int)
DFromInt(x) == DRound(IF x < 0 THEN -1 ELSE 1, BFromNat(AbsInt(x)), 0)

DNeg(a) == <<-a[1], a[2], a[3]>>

DAbs(a) == <<AbsInt(a[1]), a[2], a[3]>>

DMul(a, b) == DRound(a[1] * b[1], BMulFrom(a[2], b[2], 1), a[3] + b[3])

DAddCmp(sa, na, sb, nb, e, c) ==
    IF c = 0 THEN DZero
    ELSE IF c > 0 THEN DRound(sa, BSub(na, nb), e)
    ELSE DRound(sb, BSub(nb, na), e)

\* sa * na * 2^e + sb * nb * 2^e
DAddMant(sa, na, sb, nb, e) ==
    IF sa = sb THEN DRound(sa, BAdd(na, nb), e)
    ELSE DAddCmp(sa, na, sb, nb, e, BCmp(na, nb))

DAddAt(a, b, e) ==
    DAddMant(a[1], BShl(a[2], a[3] - e), b[1], BShl(b[2], b[3] - e), e)

DAdd(a, b) ==
    IF a[1] = 0 THEN b
    ELSE IF b[1] = 0 THEN a
    ELSE DAddAt(a, b, IF a[3] < b[3] THEN a[3] ELSE b[3])

DSub(a, b) == DAdd(a, DNeg(b))

\* the quotient with one more bit, set when the division left a remainder
DDivSticky(qr) ==
    IF qr[2] = <<>> THEN BShl(qr[1], 1) ELSE BAdd(BShl(qr[1], 1), <<1>>)

\* a / b for b # 0: 57 or 58 quotient bits, the last one sticky
DDiv(a, b) ==
    IF a[1] = 0 THEN DZero
    ELSE DRound(a[1] * b[1],
                DDivSticky(BDivMod(BShl(a[2], MantBits + 3), b[2])),
                a[3] - b[3] - (MantBits + 4))

\* -1, 0, 1 as |a| < |b|, |a| = |b|, |a| > |b|, for a and b not zero
DCmpAbs(a, b) ==
    IF a[3] # b[3] THEN (IF a[3] < b[3] THEN -1 ELSE 1) ELSE BCmp(a[2], b[2])

\* a < b
DLess(a, b) ==
    IF a[1] # b[1] THEN a[1] < b[1]
    ELSE IF a[1] = 0 THEN FALSE
    ELSE IF a[1] = 1 THEN DCmpAbs(a, b) < 0 ELSE DCmpAbs(a, b) > 0

DMin(a, b) == IF DLess(b, a) THEN b ELSE a

DMax(a, b) == IF DLess(a, b) THEN b ELSE a

\* static_cast<std::int32_t>(double): truncation toward zero
DTrunc(a) ==
    IF a[1] = 0 THEN 0
    ELSE a[1] * BToNat(IF a[3] >= 0 THEN BShl(a[2], a[3]) ELSE BShr(a[2], -a[3]))

\* std::round: to the nearest integer, halves away from zero
DRoundToInt(a) ==
    IF a[1] = 0 THEN 0
    ELSE IF a[3] >= 0 THEN a[1] * BToNat(BShl(a[2], a[3]))
    ELSE a[1] * (BToNat(BShr(a[2], -a[3])) + BBit(a[2], -a[3] - 1))

\* std::numeric_limits<double>::epsilon() = 2^-52
DEpsilon == <<1, BShl(<<1>>, MantBits - 1), -(2 * (MantBits - 1))>>

(***************************************************************************)
(* The inputs.  Coordinates within MaxOffset units of a base point, one    *)
(* base at the origin and one far from it; and the points of a sloped      *)
(* line through a base.                                                    *)
(***************************************************************************)
MaxOffset == 1

Bases == {<<0, 0>>, <<168164244, -81758946>>}

Points(b) ==
    {<<b[1] + dx, b[2] + dy>> : dx \in (-MaxOffset)..MaxOffset,
                                dy \in (-MaxOffset)..MaxOffset}

LinePoints(b) == {<<b[1] + k, b[2] + 5 * k>> : k \in {0, 1, 4}}

(***************************************************************************)
(* Coordinates (util/coordinate.hpp).  Fixed values are int32; the valid   *)
(* range keeps every sum and difference of two of them inside int32.       *)
(***************************************************************************)
COORDINATE_PRECISION == 1000000

Lon(c) == c[1]

Lat(c) == c[2]

\* static_cast<double>(fixed) / COORDINATE_PRECISION
FixedToFloating(x) == DDiv(DFromInt(x), DFromInt(COORDINATE_PRECISION))

\* the fixed values the inputs hold and their differences, and the fixed values
\* of the polylines and coordinates of SpecClosest, converted once
ConvertedFixed ==
    UNION {{Lon(p), Lat(p), Lon(p) - Lon(q), Lat(p) - Lat(q)} :
             <<p, q>> \in UNION {(Points(b) \X Points(b))
                                   \cup (LinePoints(b) \X LinePoints(b)) : b \in Bases}}
        \cup {-8000001, -8000000, -10, 300, 500, 1000, 2000, 5000, 8000000, 180000000}

FloatingOf == [x \in ConvertedFixed |-> FixedToFloating(x)]

toFloating(x) == IF x \in ConvertedFixed THEN FloatingOf[x] ELSE FixedToFloating(x)

\* toFixed: the double times COORDINATE_PRECISION, rounded to the nearest unit
toFixed(d) == DRoundToInt(DMul(d, DFromInt(COORDINATE_PRECISION)))

DHalf == DDiv(DFromInt(1), DFromInt(2))

BelowEpsilon(d) == DLess(DAbs(d), DEpsilon)

(***************************************************************************)
(* signedArea, isCCW                                                       *)
(***************************************************************************)
signedAreaOf(lat_1, lon_1, lat_2, lon_2, lat_3, lon_3) ==
    DMul(DHalf,
         DAdd(DSub(DSub(DAdd(DAdd(DMul(DNeg(lon_2), lat_1),
                                  DMul(lon_3, lat_1)),
                             DMul(lon_1, lat_2)),
                        DMul(lon_3, lat_2)),
                   DMul(lon_1, lat_3)),
              DMul(lon_2, lat_3)))

signedArea(first_coordinate, second_coordinate, third_coordinate) ==
    signedAreaOf(toFloating(Lat(first_coordinate)), toFloating(Lon(first_coordinate)),
                 toFloating(Lat(second_coordinate)), toFloating(Lon(second_coordinate)),
                 toFloating(Lat(third_coordinate)), toFloating(Lon(third_coordinate)))

isCCW(first_coordinate, second_coordinate, third_coordinate) ==
    DLess(DZero, signedArea(first_coordinate, second_coordinate, third_coordinate))

(***************************************************************************)
(* circleCenter: one call is one step; frames holds the arguments of the   *)
(* calls made so far, the last one being the call that is running.         *)
(***************************************************************************)
C2C1_lat(f) == toFloating(Lat(f[2]) - Lat(f[1]))

C2C1_lon(f) == toFloating(Lon(f[2]) - Lon(f[1]))

C3C2_lat(f) == toFloating(Lat(f[3]) - Lat(f[2]))

C3C2_lon(f) == toFloating(Lon(f[3]) - Lon(f[2]))

C2C1_slope(f) == DDiv(C2C1_lat(f), C2C1_lon(f))

C3C2_slope(f) == DDiv(C3C2_lat(f), C3C2_lon(f))

NotDistinct(f) == f[1] = f[2] \/ f[2] = f[3] \/ f[1] = f[3]

\* the check of one direction only
CollinearInYOnly(f) == BelowEpsilon(C2C1_lat(f)) /\ BelowEpsilon(C3C2_lat(f))

CollinearInXOrY(f) ==
    \/ BelowEpsilon(C2C1_lon(f)) /\ BelowEpsilon(C3C2_lon(f))
    \/ BelowEpsilon(C2C1_lat(f)) /\ BelowEpsilon(C3C2_lat(f))

VerticalC2C1(f) == BelowEpsilon(C2C1_lon(f))

VerticalC3C2(f) == BelowEpsilon(C3C2_lon(f))

ZeroSlopeC2C1(f) == BelowEpsilon(C2C1_slope(f))

ParallelSlopes(f) == BelowEpsilon(DSub(C2C1_slope(f), C3C2_slope(f)))

\* the same arguments again
ReorderNothing(f) == f

\* the arguments of the recursive call of each degenerate branch
ReorderVerticalC2C1(f) == <<f[1], f[3], f[2]>>

ReorderVerticalC3C2(f) == <<f[2], f[1], f[3]>>

ReorderZeroSlope(f) == <<f[3], f[2], f[1]>>

\* the BOOST_ASSERT of the vertical-C2C1 branch
AssertVerticalC2C1(f) ==
    /\ ~BelowEpsilon(toFloating(Lon(f[3]) - Lon(f[1])))
    /\ ~BelowEpsilon(toFloating(Lon(f[2]) - Lon(f[3])))

\* the BOOST_ASSERT of the vertical-C3C2 branch
AssertVerticalC3C2(f) ==
    /\ ~BelowEpsilon(toFloating(Lon(f[1]) - Lon(f[2])))
    /\ ~BelowEpsilon(toFloating(Lon(f[3]) - Lon(f[1])))

CenterLonOf(C1_y, C1_x, C2_x, C3_y, C3_x, sa, sb) ==
    DDiv(DSub(DAdd(DMul(DMul(sa, sb), DSub(C1_y, C3_y)),
                   DMul(sb, DAdd(C1_x, C2_x))),
              DMul(sa, DAdd(C2_x, C3_x))),
         DMul(DFromInt(2), DSub(sb, sa)))

CenterLon(f) ==
    CenterLonOf(toFloating(Lat(f[1])), toFloating(Lon(f[1])), toFloating(Lon(f[2])),
                toFloating(Lat(f[3])), toFloating(Lon(f[3])),
                C2C1_slope(f), C3C2_slope(f))

CenterLatOf(C1_y, C1_x, C2_y, C2_x, lon, sa) ==
    DAdd(DDiv(DSub(DMul(DHalf, DAdd(C1_x, C2_x)), lon), sa),
         DMul(DHalf, DAdd(C1_y, C2_y)))

CenterLat(f) ==
    CenterLatOf(toFloating(Lat(f[1])), toFloating(Lon(f[1])), toFloating(Lat(f[2])),
                toFloating(Lon(f[2])), CenterLon(f), C2C1_slope(f))

\* the solver's result taken as it is, whatever its longitude and latitude
CenterUnchecked(lon, lat) == <<"center", <<lon, lat>>>>

CenterOrNone(lon, lat) ==
    IF \/ DLess(lon, DFromInt(-180))
       \/ DLess(DFromInt(180), lon)
       \/ DLess(lat, DFromInt(-90))
       \/ DLess(DFromInt(90), lat)
    THEN <<"none">>
    ELSE <<"center", <<toFixed(lon), toFixed(lat)>>>>

\* what the call with arguments f returns when it reaches the solver
SolveCenter(f) == CenterOrNone(CenterLon(f), CenterLat(f))

(***************************************************************************)
(* interpolateLinear                                                       *)
(***************************************************************************)
\* the axis interpolated from to back to from
InterpolateAxisBack(factor, from, to) ==
    DTrunc(DAdd(DFromInt(to), DMul(factor, DFromInt(from - to))))

\* static_cast<std::int32_t>(from + factor * (to - from)) on one axis
InterpolateAxis(factor, from, to) ==
    DTrunc(DAdd(DFromInt(from), DMul(factor, DFromInt(to - from))))

interpolateLinear(factor, from, to) ==
    <<InterpolateAxis(factor, Lon(from), Lon(to)),
      InterpolateAxis(factor, Lat(from), Lat(to))>>

\* the factors k / MaxSteps, 0 and 1 among them
MaxSteps == 3

Factors == {DDiv(DFromInt(k), DFromInt(MaxSteps)) : k \in 0..MaxSteps}

DOne == DFromInt(1)

(***************************************************************************)
(* leastSquareRegression over the coordinates cs; the sums are those of    *)
(* the loop after its first n rounds.                                      *)
(***************************************************************************)
RECURSIVE SumLon(_, _)
SumLon(cs, n) ==
    IF n = 0 THEN DZero ELSE DAdd(SumLon(cs, n - 1), toFloating(Lon(cs[n])))

RECURSIVE SumLat(_, _)
SumLat(cs, n) ==
    IF n = 0 THEN DZero ELSE DAdd(SumLat(cs, n - 1), toFloating(Lat(cs[n])))

RECURSIVE SumLonLon(_, _)
SumLonLon(cs, n) ==
    IF n = 0 THEN DZero
    ELSE DAdd(SumLonLon(cs, n - 1),
              DMul(toFloating(Lon(cs[n])), toFloating(Lon(cs[n]))))

RECURSIVE SumLonLat(_, _)
SumLonLat(cs, n) ==
    IF n = 0 THEN DZero
    ELSE DAdd(SumLonLat(cs, n - 1),
              DMul(toFloating(Lon(cs[n])), toFloating(Lat(cs[n]))))

RECURSIVE MinLon(_, _)
MinLon(cs, n) ==
    IF n = 0 THEN toFloating(Lon(cs[1]))
    ELSE DMin(MinLon(cs, n - 1), toFloating(Lon(cs[n])))

RECURSIVE MaxLon(_, _)
MaxLon(cs, n) ==
    IF n = 0 THEN toFloating(Lon(cs[1]))
    ELSE DMax(MaxLon(cs, n - 1), toFloating(Lon(cs[n])))

RegressionDividend(cs) ==
    DSub(DMul(DFromInt(Len(cs)), SumLonLat(cs, Len(cs))),
         DMul(SumLon(cs, Len(cs)), SumLat(cs, Len(cs))))

RegressionDivisor(cs) ==
    DSub(DMul(DFromInt(Len(cs)), SumLonLon(cs, Len(cs))),
         DMul(SumLon(cs, Len(cs)), SumLon(cs, Len(cs))))

RegressionSlope(cs) == DDiv(RegressionDividend(cs), RegressionDivisor(cs))

RegressionIntercept(cs, slope) ==
    DDiv(DSub(SumLat(cs, Len(cs)), DMul(slope, SumLon(cs, Len(cs)))),
         DFromInt(Len(cs)))

GetLatAtLon(intercept, slope, longitude) == DAdd(intercept, DMul(slope, longitude))

\* const double offset = 0.00001
RegressionOffset == DDiv(DFromInt(1), DFromInt(100000))

RegressionPoint(intercept, slope, longitude) ==
    <<toFixed(longitude), toFixed(GetLatAtLon(intercept, slope, longitude))>>

RegressionEnds(cs, slope, intercept) ==
    <<RegressionPoint(intercept, slope, DSub(MinLon(cs, Len(cs)), RegressionOffset)),
      RegressionPoint(intercept, slope, DAdd(MaxLon(cs, Len(cs)), RegressionOffset))>>

RegressionFit(cs, slope) == RegressionEnds(cs, slope, RegressionIntercept(cs, slope))

\* the front of the coordinates twice
RegressionFallbackFront(cs) == <<cs[1], cs[1]>>

\* std::make_pair(coordinates.front(), coordinates.back())
RegressionFallback(cs) == <<cs[1], cs[Len(cs)]>>

leastSquareRegression(cs) ==
    IF BelowEpsilon(RegressionDivisor(cs)) THEN RegressionFallback(cs)
    ELSE RegressionFit(cs, RegressionSlope(cs))

(***************************************************************************)
(* computeAngle.  util/web_mercator.hpp and util/trigonometry_table.hpp    *)
(* are not among the sources; latToY and atan2_lookup follow the           *)
(* interface description: a spherical web-mercator projection of the       *)
(* latitude, and a table approximation of atan2 with the sign convention   *)
(* and the branches of the exact function.                                 *)
(***************************************************************************)
\* boost::math::constants::pi<double>()
DPi == <<1, <<11544, 10376, 2029, 201>>, -51>>

\* the projected latitude in degrees, for the latitudes of AnglePoints
latToY ==
    (DZero :> DZero)
    @@ (<<1, <<28045, 16747, 7134, 134>>, -72>> :> <<1, <<28449, 16635, 7134, 134>>, -72>>)
    @@ (<<-1, <<28045, 16747, 7134, 134>>, -72>> :> <<-1, <<25392, 17082, 7134, 134>>, -72>>)

\* the arctangent of i / 4095 in units of pi / 4 / 65535, for the indices
\* the quotients of AnglePoints reach
atan_table == (0 :> 0) @@ (1 :> 20) @@ (2047 :> 38679) @@ (4094 :> 65525)

\* the table's angle for the quotient t, scaled back by 4 / pi * 0xFFFF
atan_entry(t) ==
    DDiv(DFromInt(atan_table[DTrunc(DMul(t, DFromInt(4095)))]),
         <<1, <<23225, 7474, 31856, 162>>, -36>>)

\* the angle of the first octant carried to the octant of (x, y)
atan2_octant(x_negative, y_negative, swapped, angle) ==
    CASE ~x_negative /\ ~y_negative /\ ~swapped -> angle
      [] x_negative /\ ~y_negative /\ ~swapped -> DSub(DPi, angle)
      [] ~x_negative /\ y_negative /\ ~swapped -> DNeg(angle)
      [] x_negative /\ y_negative /\ ~swapped -> DAdd(DNeg(DPi), angle)
      [] ~x_negative /\ ~y_negative /\ swapped -> DSub(DMul(DPi, DHalf), angle)
      [] x_negative /\ ~y_negative /\ swapped -> DAdd(DMul(DPi, DHalf), angle)
      [] ~x_negative /\ y_negative /\ swapped -> DAdd(DNeg(DMul(DPi, DHalf)), angle)
      [] x_negative /\ y_negative /\ swapped -> DSub(DNeg(DMul(DPi, DHalf)), angle)

atan2_ratio(x_negative, y_negative, t) ==
    IF DLess(DOne, t)
    THEN atan2_octant(x_negative, y_negative, TRUE, atan_entry(DDiv(DOne, t)))
    ELSE atan2_octant(x_negative, y_negative, FALSE, atan_entry(t))

atan2_lookup(y, x) ==
    IF BelowEpsilon(x)
    THEN IF DLess(y, DZero) THEN DNeg(DMul(DPi, DHalf)) ELSE DMul(DPi, DHalf)
    ELSE atan2_ratio(x[1] < 0, y[1] < 0, DDiv(DAbs(y), DAbs(x)))

\* while (angle < 0.) angle += 360.;
RECURSIVE NormalizeAngle(_)
NormalizeAngle(angle) ==
    IF DLess(angle, DZero) THEN NormalizeAngle(DAdd(angle, DFromInt(360))) ELSE angle

AngleBetween(v1x, v1y, v2x, v2y) ==
    NormalizeAngle(DDiv(DMul(DSub(atan2_lookup(v2y, v2x), atan2_lookup(v1y, v1x)),
                             DFromInt(180)),
                        DPi))

\* first == second
CoincidesWithFirst(first, second, third) == first = second

\* first == second || second == third
CoincidesWithMiddle(first, second, third) == first = second \/ second = third

computeAngle(first, second, third) ==
    IF CoincidesWithMiddle(first, second, third) THEN DFromInt(180)
    ELSE AngleBetween(toFloating(Lon(first) - Lon(second)),
                      DSub(latToY[toFloating(Lat(first))], latToY[toFloating(Lat(second))]),
                      toFloating(Lon(third) - Lon(second)),
                      DSub(latToY[toFloating(Lat(third))], latToY[toFloating(Lat(second))]))

\* points around the origin, and two far to the west just off the equator
AnglePoints ==
    {<<0, 0>>, <<-1, 0>>, <<1, 0>>, <<0, 1>>, <<0, -1>>, <<1, 1>>, <<-1, -1>>,
     <<-5000, -1>>, <<-5000, 1>>}

(***************************************************************************)
(* The results of the C library's functions, for the arguments the inputs  *)
(* below lead to.  The square root of a negative number is NaN, and a NaN  *)
(* argument gives NaN.                                                     *)
(***************************************************************************)
DNaN == <<2, <<>>, 0>>

LibmTable == {
    <<"atan2", <<<<-1, <<12285, 10519, 7784, 145>>, -73>>, <<0, <<>>, 0>>>>, <<-1, <<11544, 10376, 2029, 201>>, -52>>>>,
    <<"atan2", <<<<-1, <<8733, 17579, 18103, 140>>, -73>>, <<0, <<>>, 0>>>>, <<-1, <<11544, 10376, 2029, 201>>, -52>>>>,
    <<"atan2", <<<<-1, <<8730, 17579, 18103, 140>>, -73>>, <<1, <<16108, 3459, 30233, 149>>, -77>>>>, <<-1, <<14744, 6588, 17734, 192>>, -52>>>>,
    <<"atan2", <<<<-1, <<5167, 24639, 28422, 135>>, -73>>, <<1, <<16105, 3459, 30233, 149>>, -76>>>>, <<-1, <<24529, 3718, 16956, 183>>, -52>>>>,
    <<"atan2", <<<<-1, <<18835, 31164, 25344, 196>>, -74>>, <<-1, <<11912, 12516, 13215, 187>>, -75>>>>, <<-1, <<232, 9608, 31909, 128>>, -51>>>>,
    <<"atan2", <<<<-1, <<5205, 31163, 25344, 196>>, -74>>, <<-1, <<4494, 6187, 31681, 245>>, -71>>>>, <<-1, <<6817, 90, 22385, 194>>, -51>>>>,
    <<"atan2", <<<<-1, <<11937, 12516, 13215, 187>>, -76>>, <<0, <<>>, 0>>>>, <<-1, <<11544, 10376, 2029, 201>>, -52>>>>,
    <<"atan2", <<<<0, <<>>, 0>>, <<-1, <<11912, 12516, 13215, 187>>, -75>>>>, <<1, <<11544, 10376, 2029, 201>>, -51>>>>,
    <<"atan2", <<<<0, <<>>, 0>>, <<1, <<0, 0, 0, 128>>, -52>>>>, <<0, <<>>, 0>>>>,
    <<"atan2", <<<<1, <<3797, 31751, 22146, 199>>, -107>>, <<1, <<0, 0, 0, 128>>, -52>>>>, <<1, <<3797, 31751, 22146, 199>>, -107>>>>,
    <<"atan2", <<<<1, <<24263, 18977, 1544, 139>>, -105>>, <<1, <<0, 0, 0, 128>>, -52>>>>, <<1, <<24263, 18977, 1544, 139>>, -105>>>>,
    <<"atan2", <<<<1, <<16109, 3459, 30233, 149>>, -79>>, <<1, <<32767, 32767, 32767, 255>>, -53>>>>, <<1, <<16109, 3459, 30233, 149>>, -79>>>>,
    <<"atan2", <<<<1, <<12572, 20306, 741, 212>>, -79>>, <<1, <<32767, 32767, 32767, 255>>, -53>>>>, <<1, <<12572, 20306, 741, 212>>, -79>>>>,
    <<"atan2", <<<<1, <<26081, 18460, 20270, 167>>, -78>>, <<1, <<32766, 32767, 32767, 255>>, -53>>>>, <<1, <<26082, 18460, 20270, 167>>, -78>>>>,
    <<"atan2", <<<<1, <<11937, 12516, 13215, 187>>, -76>>, <<1, <<32733, 32767, 32767, 255>>, -53>>>>, <<1, <<11946, 12516, 13215, 187>>, -76>>>>,
    <<"atan2", <<<<1, <<20128, 16730, 18617, 159>>, -74>>, <<1, <<32370, 32767, 32767, 255>>, -53>>>>, <<1, <<20211, 16730, 18617, 159>>, -74>>>>,
    <<"atan2", <<<<1, <<28227, 7935, 22827, 208>>, -73>>, <<1, <<30046, 32767, 32767, 255>>, -53>>>>, <<1, <<28967, 7935, 22827, 208>>, -73>>>>,
    <<"atan2", <<<<1, <<28713, 13781, 22629, 175>>, -71>>, <<1, <<1901, 32767, 32767, 255>>, -53>>>>, <<1, <<3006, 13782, 22629, 175>>, -71>>>>,
    <<"atan2", <<<<1, <<3056, 9345, 24665, 188>>, -71>>, <<1, <<29908, 32766, 32767, 255>>, -53>>>>, <<1, <<11813, 9345, 24665, 188>>, -71>>>>,
    <<"atan2", <<<<1, <<30475, 23812, 22140, 252>>, -71>>, <<1, <<1691, 32766, 32767, 255>>, -53>>>>, <<1, <<18712, 23813, 22140, 252>>, -71>>>>,
    <<"atan2", <<<<1, <<17900, 6032, 26063, 143>>, -69>>, <<1, <<29614, 32757, 32767, 255>>, -53>>>>, <<1, <<14307, 6034, 26063, 143>>, -69>>>>,
    <<"atan2", <<<<1, <<17902, 6032, 26063, 143>>, -69>>, <<1, <<29614, 32757, 32767, 255>>, -53>>>>, <<1, <<14309, 6034, 26063, 143>>, -69>>>>,
    <<"atan2", <<<<1, <<11422, 29577, 25951, 206>>, -69>>, <<1, <<3921, 32747, 32767, 255>>, -53>>>>, <<1, <<31812, 29582, 25951, 206>>, -69>>>>,
    <<"atan2", <<<<1, <<25961, 30359, 18535, 143>>, -68>>, <<1, <<24377, 32727, 32767, 255>>, -53>>>>, <<1, <<10404, 30367, 18535, 143>>, -68>>>>,
    <<"atan2", <<<<1, <<21586, 21120, 361, 183>>, -67>>, <<1, <<10998, 32506, 32767, 255>>, -53>>>>, <<1, <<401, 21183, 361, 183>>, -67>>>>,
    <<"atan2", <<<<1, <<8470, 512, 14347, 184>>, -67>>, <<1, <<7855, 32502, 32767, 255>>, -53>>>>, <<1, <<2678, 576, 14347, 184>>, -67>>>>,
    <<"atan2", <<<<1, <<9412, 22864, 25300, 142>>, -56>>, <<1, <<18515, 9720, 12359, 255>>, -53>>>>, <<1, <<6625, 12979, 29098, 142>>, -56>>>>,
    <<"atan2", <<<<1, <<20776, 23252, 28221, 142>>, -56>>, <<1, <<32759, 25313, 12333, 255>>, -53>>>>, <<1, <<7481, 17573, 32026, 142>>, -56>>>>,
    <<"atan2", <<<<1, <<20815, 23252, 28221, 142>>, -56>>, <<1, <<32758, 25313, 12333, 255>>, -53>>>>, <<1, <<7520, 17573, 32026, 142>>, -56>>>>,
    <<"atan2", <<<<1, <<32348, 9627, 28222, 142>>, -56>>, <<1, <<21971, 25146, 12333, 255>>, -53>>>>, <<1, <<10734, 3995, 32027, 142>>, -56>>>>,
    <<"atan2", <<<<1, <<21365, 20304, 6189, 160>>, -55>>, <<1, <<25692, 10335, 27794, 252>>, -53>>>>, <<1, <<28896, 27961, 27837, 160>>, -55>>>>,
    <<"atan2", <<<<1, <<29503, 9477, 16545, 164>>, -54>>, <<1, <<21930, 15268, 13970, 242>>, -53>>>>, <<1, <<14025, 23920, 15580, 167>>, -54>>>>,
    <<"atan2", <<<<1, <<26196, 27672, 12985, 199>>, -54>>, <<1, <<14947, 29849, 25841, 235>>, -53>>>>, <<1, <<28591, 7113, 26716, 204>>, -54>>>>,
    <<"atan2", <<<<1, <<6250, 17317, 8376, 231>>, -54>>, <<1, <<16116, 31684, 13081, 228>>, -53>>>>, <<1, <<29135, 17366, 30881, 239>>, -54>>>>,
    <<"atan2", <<<<1, <<17723, 18065, 8376, 231>>, -54>>, <<1, <<2115, 31495, 13081, 228>>, -53>>>>, <<1, <<22059, 18205, 30881, 239>>, -54>>>>,
    <<"atan2", <<<<1, <<7886, 23028, 8376, 231>>, -54>>, <<1, <<28621, 30238, 13081, 228>>, -53>>>>, <<1, <<2869, 23768, 30881, 239>>, -54>>>>,
    <<"atan2", <<<<1, <<5660, 9336, 18141, 164>>, -53>>, <<1, <<20538, 17822, 3518, 196>>, -53>>>>, <<1, <<17542, 5582, 23649, 178>>, -53>>>>,
    <<"atan2", <<<<1, <<20436, 624, 31166, 167>>, -53>>, <<1, <<7223, 26946, 6738, 193>>, -53>>>>, <<1, <<22897, 32755, 6217, 183>>, -53>>>>,
    <<"atan2", <<<<1, <<15308, 19710, 633, 181>>, -53>>, <<1, <<15309, 19710, 633, 181>>, -53>>>>, <<1, <<11544, 10376, 2029, 201>>, -53>>>>,
    <<"atan2", <<<<1, <<21241, 21406, 633, 181>>, -53>>, <<1, <<9376, 18014, 633, 181>>, -53>>>>, <<1, <<3753, 12775, 2029, 201>>, -53>>>>,
    <<"atan2", <<<<1, <<7223, 26946, 6738, 193>>, -53>>, <<1, <<20435, 624, 31166, 167>>, -53>>>>, <<1, <<192, 20765, 30608, 218>>, -53>>>>,
    <<"atan2", <<<<1, <<7223, 26946, 6738, 193>>, -53>>, <<1, <<20436, 624, 31166, 167>>, -53>>>>, <<1, <<192, 20765, 30608, 218>>, -53>>>>,
    <<"atan2", <<<<1, <<26044, 22450, 20146, 217>>, -53>>, <<1, <<16867, 11879, 27277, 134>>, -53>>>>, <<1, <<29977, 13253, 1972, 130>>, -52>>>>,
    <<"atan2", <<<<1, <<14947, 29849, 25841, 235>>, -53>>, <<1, <<26195, 27672, 12985, 199>>, -54>>>>, <<1, <<28973, 8597, 28118, 149>>, -52>>>>,
    <<"atan2", <<<<1, <<25692, 10335, 27794, 252>>, -53>>, <<1, <<21361, 20304, 6189, 160>>, -55>>>>, <<1, <<3837, 19169, 31317, 180>>, -52>>>>,
    <<"atan2", <<<<1, <<5538, 26672, 846, 255>>, -53>>, <<1, <<290, 29061, 16218, 178>>, -56>>>>, <<1, <<14542, 7979, 29223, 189>>, -52>>>>,
    <<"atan2", <<<<1, <<7697, 26881, 846, 255>>, -53>>, <<1, <<30626, 9943, 16218, 178>>, -56>>>>, <<1, <<27031, 9178, 29223, 189>>, -52>>>>,
    <<"atan2", <<<<1, <<10377, 23630, 12333, 255>>, -53>>, <<1, <<27058, 19266, 28227, 142>>, -56>>>>, <<1, <<24274, 9497, 4123, 192>>, -52>>>>,
    <<"atan2", <<<<1, <<21971, 25146, 12333, 255>>, -53>>, <<1, <<32293, 9627, 28222, 142>>, -56>>>>, <<1, <<21117, 20366, 4123, 192>>, -52>>>>,
    <<"atan2", <<<<1, <<14405, 25272, 12333, 255>>, -53>>, <<1, <<10834, 28007, 28221, 142>>, -56>>>>, <<1, <<4304, 21268, 4123, 192>>, -52>>>>,
    <<"atan2", <<<<1, <<32759, 25313, 12333, 255>>, -53>>, <<1, <<20764, 23252, 28221, 142>>, -56>>>>, <<1, <<837, 21566, 4123, 192>>, -52>>>>,
    <<"atan2", <<<<1, <<7257, 9973, 12335, 255>>, -53>>, <<1, <<22936, 14943, 28046, 142>>, -56>>>>, <<1, <<24424, 20913, 4134, 192>>, -52>>>>,
    <<"atan2", <<<<1, <<18515, 9720, 12359, 255>>, -53>>, <<1, <<9372, 22864, 25300, 142>>, -56>>>>, <<1, <<4989, 21853, 4306, 192>>, -52>>>>,
    <<"cos", <<<<-1, <<7481, 17573, 32026, 142>>, -55>>>>, <<1, <<5242, 21089, 16666, 253>>, -53>>>>,
    <<"cos", <<<<-1, <<10695, 3995, 32027, 142>>, -56>>>>, <<1, <<21971, 25146, 12333, 255>>, -53>>>>,
    <<"cos", <<<<-1, <<7481, 17573, 32026, 142>>, -56>>>>, <<1, <<32758, 25313, 12333, 255>>, -53>>>>,
    <<"cos", <<<<-1, <<23870, 6187, 31681, 245>>, -71>>>>, <<1, <<5036, 32766, 32767, 255>>, -53>>>>,
    <<"cos", <<<<-1, <<28034, 29898, 15930, 208>>, -72>>>>, <<1, <<21901, 32767, 32767, 255>>, -53>>>>,
    <<"cos", <<<<-1, <<26246, 17044, 4706, 206>>, -73>>>>, <<1, <<30112, 32767, 32767, 255>>, -53>>>>,
    <<"cos", <<<<-1, <<23260, 22107, 9594, 159>>, -73>>>>, <<1, <<31182, 32767, 32767, 255>>, -53>>>>,
    <<"cos", <<<<-1, <<12534, 10519, 7784, 145>>, -73>>>>, <<1, <<31450, 32767, 32767, 255>>, -53>>>>,
    <<"cos", <<<<-1, <<8959, 17579, 18103, 140>>, -73>>>>, <<1, <<31533, 32767, 32767, 255>>, -53>>>>,
    <<"cos", <<<<-1, <<5383, 24639, 28422, 135>>, -73>>>>, <<1, <<31614, 32767, 32767, 255>>, -53>>>>,
    <<"cos", <<<<-1, <<26246, 17044, 4706, 206>>, -74>>>>, <<1, <<32104, 32767, 32767, 255>>, -53>>>>,
    <<"cos", <<<<-1, <<19095, 31164, 25344, 196>>, -74>>>>, <<1, <<32163, 32767, 32767, 255>>, -53>>>>,
    <<"cos", <<<<-1, <<11945, 12516, 13215, 187>>, -75>>>>, <<1, <<32631, 32767, 32767, 255>>, -53>>>>,
    <<"cos", <<<<-1, <<11945, 12516, 13215, 187>>, -76>>>>, <<1, <<32734, 32767, 32767, 255>>, -53>>>>,
    <<"cos", <<<<-1, <<16109, 3459, 30233, 149>>, -78>>>>, <<1, <<32767, 32767, 32767, 255>>, -53>>>>,
    <<"cos", <<<<-1, <<16109, 3459, 30233, 149>>, -79>>>>, <<1, <<0, 0, 0, 128>>, -52>>>>,
    <<"cos", <<<<0, <<>>, 0>>>>, <<1, <<0, 0, 0, 128>>, -52>>>>,
    <<"cos", <<<<1, <<16109, 3459, 30233, 149>>, -77>>>>, <<1, <<32763, 32767, 32767, 255>>, -53>>>>,
    <<"cos", <<<<1, <<16109, 3459, 30233, 149>>, -76>>>>, <<1, <<32746, 32767, 32767, 255>>, -53>>>>,
    <<"cos", <<<<1, <<32503, 29265, 11223, 214>>, -71>>>>, <<1, <<19593, 32766, 32767, 255>>, -53>>>>,
    <<"cos", <<<<1, <<3006, 13782, 22629, 175>>, -70>>>>, <<1, <<7603, 32764, 32767, 255>>, -53>>>>,
    <<"cos", <<<<1, <<24610, 24786, 15387, 225>>, -70>>>>, <<1, <<26030, 32761, 32767, 255>>, -53>>>>,
    <<"cos", <<<<1, <<22443, 9594, 31319, 168>>, -69>>>>, <<1, <<2015, 32754, 32767, 255>>, -53>>>>,
    <<"cos", <<<<1, <<401, 21183, 361, 183>>, -66>>>>, <<1, <<11224, 31721, 32767, 255>>, -53>>>>,
    <<"cos", <<<<1, <<7480, 17573, 32026, 142>>, -58>>>>, <<1, <<12170, 12267, 31490, 255>>, -53>>>>,
    <<"cos", <<<<1, <<4267, 31151, 32025, 142>>, -56>>>>, <<1, <<10777, 25481, 12333, 255>>, -53>>>>,
    <<"cos", <<<<1, <<7481, 17573, 32026, 142>>, -56>>>>, <<1, <<32758, 25313, 12333, 255>>, -53>>>>,
    <<"cos", <<<<1, <<14329, 19160, 23648, 178>>, -56>>>>, <<1, <<7697, 26881, 846, 255>>, -53>>>>,
    <<"cos", <<<<1, <<17543, 5582, 23649, 178>>, -56>>>>, <<1, <<5538, 26672, 846, 255>>, -53>>>>,
    <<"cos", <<<<1, <<7481, 17573, 32026, 142>>, -55>>>>, <<1, <<5242, 21089, 16666, 253>>, -53>>>>,
    <<"cos", <<<<1, <<28896, 27961, 27837, 160>>, -55>>>>, <<1, <<25692, 10335, 27794, 252>>, -53>>>>,
    <<"cos", <<<<1, <<17543, 5582, 23649, 178>>, -55>>>>, <<1, <<7191, 6402, 3630, 252>>, -53>>>>,
    <<"cos", <<<<1, <<31770, 8822, 29623, 198>>, -54>>>>, <<1, <<20266, 4789, 30276, 236>>, -53>>>>,
    <<"cos", <<<<1, <<24645, 24802, 21245, 234>>, -54>>>>, <<1, <<5500, 6181, 19090, 229>>, -53>>>>,
    <<"cos", <<<<1, <<9064, 29600, 21245, 234>>, -54>>>>, <<1, <<29576, 5119, 19090, 229>>, -53>>>>,
    <<"cos", <<<<1, <<25947, 8804, 6434, 135>>, -53>>>>, <<1, <<3710, 1668, 4021, 221>>, -53>>>>,
    <<"cos", <<<<1, <<31301, 3209, 21771, 139>>, -53>>>>, <<1, <<18938, 15494, 27449, 218>>, -53>>>>,
    <<"cos", <<<<1, <<22897, 32755, 6217, 183>>, -53>>>>, <<1, <<7223, 26946, 6738, 193>>, -53>>>>,
    <<"cos", <<<<1, <<19334, 7977, 2029, 201>>, -53>>>>, <<1, <<21242, 21406, 633, 181>>, -53>>>>,
    <<"cos", <<<<1, <<11544, 10376, 2029, 201>>, -53>>>>, <<1, <<15309, 19710, 633, 181>>, -53>>>>,
    <<"cos", <<<<1, <<191, 20765, 30608, 218>>, -53>>>>, <<1, <<20436, 624, 31166, 167>>, -53>>>>,
    <<"cos", <<<<1, <<5545, 15170, 13177, 223>>, -53>>>>, <<1, <<5661, 9336, 18141, 164>>, -53>>>>,
    <<"cos", <<<<1, <<9064, 29600, 21245, 234>>, -53>>>>, <<1, <<25837, 27956, 25641, 155>>, -53>>>>,
    <<"cos", <<<<1, <<8038, 4396, 6326, 159>>, -52>>>>, <<1, <<29504, 9477, 16545, 164>>, -54>>>>,
    <<"cos", <<<<1, <<11544, 10376, 2029, 201>>, -52>>>>, <<1, <<23559, 26152, 6296, 141>>, -106>>>>,
    <<"cos", <<<<1, <<20999, 30948, 26853, 213>>, -52>>>>, <<-1, <<3731, 17932, 25677, 203>>, -56>>>>,
    <<"cos", <<<<1, <<17084, 22340, 20286, 172>>, -51>>>>, <<-1, <<22753, 31820, 4334, 231>>, -53>>>>,
    <<"cos", <<<<1, <<11544, 10376, 2029, 201>>, -51>>>>, <<-1, <<0, 0, 0, 128>>, -52>>>>,
    <<"cos", <<<<1, <<9944, 28654, 10560, 205>>, -51>>>>, <<-1, <<13541, 18267, 14188, 255>>, -53>>>>,
    <<"cos", <<<<1, <<5052, 30089, 27333, 209>>, -51>>>>, <<-1, <<31059, 10804, 19628, 253>>, -53>>>>,
    <<"hypot", <<<<-1, <<12910, 28568, 1025, 201>>, -50>>, <<1, <<28896, 27961, 27837, 160>>, -54>>>>, <<1, <<14615, 15724, 9257, 201>>, -50>>>>,
    <<"hypot", <<<<-1, <<19310, 24817, 240, 198>>, -50>>, <<0, <<>>, 0>>>>, <<1, <<19310, 24817, 240, 198>>, -50>>>>,
    <<"hypot", <<<<-1, <<11544, 10376, 2029, 201>>, -51>>, <<1, <<7481, 17573, 32026, 142>>, -54>>>>, <<1, <<15458, 11183, 28006, 201>>, -51>>>>,
    <<"hypot", <<<<-1, <<11258, 11286, 18748, 200>>, -51>>, <<1, <<4267, 31151, 32025, 142>>, -55>>>>, <<1, <<26412, 1889, 25268, 200>>, -51>>>>,
    <<"hypot", <<<<-1, <<9964, 10221, 18748, 200>>, -51>>, <<1, <<7481, 17573, 32026, 142>>, -55>>>>, <<1, <<6719, 879, 25268, 200>>, -51>>>>,
    <<"hypot", <<<<-1, <<27676, 9024, 18748, 200>>, -51>>, <<1, <<7481, 17573, 32026, 142>>, -55>>>>, <<1, <<30516, 32451, 25267, 200>>, -51>>>>,
    <<"hypot", <<<<-1, <<12017, 16949, 9726, 200>>, -51>>, <<-1, <<20757, 24772, 23649, 178>>, -55>>>>, <<1, <<25290, 23374, 19924, 200>>, -51>>>>,
    <<"hypot", <<<<-1, <<5464, 16785, 9726, 200>>, -51>>, <<1, <<17543, 5582, 23649, 178>>, -55>>>>, <<1, <<1426, 23144, 19924, 200>>, -51>>>>,
    <<"hypot", <<<<-1, <<11456, 15590, 9726, 200>>, -51>>, <<-1, <<17543, 5582, 23649, 178>>, -55>>>>, <<1, <<2622, 21951, 19924, 200>>, -51>>>>,
    <<"hypot", <<<<-1, <<11456, 15590, 9726, 200>>, -51>>, <<1, <<17543, 5582, 23649, 178>>, -55>>>>, <<1, <<2622, 21951, 19924, 200>>, -51>>>>,
    <<"hypot", <<<<-1, <<24001, 14559, 9726, 200>>, -51>>, <<1, <<20757, 24772, 23649, 178>>, -55>>>>, <<1, <<27682, 20988, 19924, 200>>, -51>>>>,
    <<"hypot", <<<<-1, <<17449, 14395, 9726, 200>>, -51>>, <<-1, <<17543, 5582, 23649, 178>>, -55>>>>, <<1, <<3819, 20758, 19924, 200>>, -51>>>>,
    <<"hypot", <<<<-1, <<15456, 6975, 19219, 198>>, -51>>, <<-1, <<7480, 17573, 32026, 142>>, -57>>>>, <<1, <<18661, 31473, 19630, 198>>, -51>>>>,
    <<"hypot", <<<<-1, <<15456, 6975, 19219, 198>>, -51>>, <<1, <<7480, 17573, 32026, 142>>, -57>>>>, <<1, <<18661, 31473, 19630, 198>>, -51>>>>,
    <<"hypot", <<<<-1, <<46, 8004, 28186, 193>>, -51>>, <<-1, <<17543, 5582, 23649, 178>>, -52>>>>, <<1, <<1660, 21217, 15223, 213>>, -51>>>>,
    <<"hypot", <<<<-1, <<29317, 23862, 21600, 184>>, -51>>, <<-1, <<21062, 20012, 31717, 189>>, -53>>>>, <<1, <<5598, 7163, 21908, 190>>, -51>>>>,
    <<"hypot", <<<<-1, <<4117, 4154, 7817, 172>>, -51>>, <<1, <<25947, 8804, 6434, 135>>, -52>>>>, <<1, <<26350, 26602, 941, 185>>, -51>>>>,
    <<"hypot", <<<<-1, <<19726, 32205, 2956, 159>>, -51>>, <<1, <<21062, 20012, 31717, 189>>, -53>>>>, <<1, <<1771, 9240, 907, 166>>, -51>>>>,
    <<"hypot", <<<<-1, <<18270, 18782, 24358, 151>>, -51>>, <<1, <<191, 20765, 30608, 218>>, -52>>>>, <<1, <<27176, 30944, 3510, 187>>, -51>>>>,
    <<"hypot", <<<<-1, <<31, 5336, 7868, 129>>, -51>>, <<-1, <<17543, 5582, 23649, 178>>, -52>>>>, <<1, <<20189, 31693, 4106, 157>>, -51>>>>,
    <<"hypot", <<<<-1, <<31, 5336, 7868, 129>>, -51>>, <<1, <<17543, 5582, 23649, 178>>, -52>>>>, <<1, <<20189, 31693, 4106, 157>>, -51>>>>,
    <<"hypot", <<<<-1, <<18270, 18782, 24358, 151>>, -52>>, <<1, <<191, 20765, 30608, 218>>, -52>>>>, <<1, <<29370, 12624, 6222, 133>>, -51>>>>,
    <<"hypot", <<<<-1, <<4298, 16783, 5644, 142>>, -52>>, <<-1, <<3754, 12775, 2029, 201>>, -52>>>>, <<1, <<23322, 30716, 8177, 246>>, -52>>>>,
    <<"hypot", <<<<-1, <<25316, 13754, 5644, 142>>, -52>>, <<-1, <<11544, 10376, 2029, 201>>, -52>>>>, <<1, <<23164, 27009, 8177, 246>>, -52>>>>,
    <<"hypot", <<<<-1, <<19383, 12058, 5644, 142>>, -52>>, <<-1, <<11544, 10376, 2029, 201>>, -52>>>>, <<1, <<13642, 26030, 8177, 246>>, -52>>>>,
    <<"hypot", <<<<-1, <<31991, 17896, 29769, 131>>, -52>>, <<-1, <<22897, 32755, 6217, 183>>, -52>>>>, <<1, <<30066, 4590, 24233, 225>>, -52>>>>,
    <<"hypot", <<<<-1, <<31, 5336, 7868, 129>>, -52>>, <<1, <<17543, 5582, 23649, 178>>, -52>>>>, <<1, <<26404, 20744, 18182, 220>>, -52>>>>,
    <<"hypot", <<<<-1, <<6762, 19843, 31531, 219>>, -54>>, <<-1, <<14024, 23920, 15580, 167>>, -53>>>>, <<1, <<31742, 24573, 11776, 200>>, -53>>>>,
    <<"hypot", <<<<-1, <<3016, 13643, 19502, 214>>, -55>>, <<-1, <<26251, 1629, 21246, 234>>, -53>>>>, <<1, <<12611, 2192, 23044, 240>>, -53>>>>,
    <<"hypot", <<<<-1, <<9621, 28209, 19501, 214>>, -55>>, <<-1, <<9064, 29600, 21245, 234>>, -53>>>>, <<1, <<10532, 29269, 23043, 240>>, -53>>>>,
    <<"hypot", <<<<-1, <<15723, 10999, 19501, 214>>, -55>>, <<-1, <<9064, 29600, 21245, 234>>, -53>>>>, <<1, <<12303, 28310, 23043, 240>>, -53>>>>,
    <<"hypot", <<<<-1, <<24710, 18700, 22529, 206>>, -55>>, <<-1, <<31770, 8822, 29623, 198>>, -53>>>>, <<1, <<21695, 2653, 16587, 205>>, -53>>>>,
    <<"hypot", <<<<-1, <<16858, 30929, 25094, 153>>, -56>>, <<1, <<14024, 23920, 15580, 167>>, -53>>>>, <<1, <<4385, 6050, 18836, 168>>, -53>>>>,
    <<"hypot", <<<<-1, <<16109, 3459, 30233, 149>>, -77>>, <<-1, <<16109, 3459, 30233, 149>>, -78>>>>, <<1, <<26081, 18460, 20270, 167>>, -77>>>>,
    <<"hypot", <<<<-1, <<16109, 3459, 30233, 149>>, -78>>, <<-1, <<16109, 3459, 30233, 149>>, -78>>>>, <<1, <<12572, 20306, 741, 212>>, -78>>>>,
    <<"hypot", <<<<-1, <<16109, 3459, 30233, 149>>, -78>>, <<0, <<>>, 0>>>>, <<1, <<16109, 3459, 30233, 149>>, -78>>>>,
    <<"hypot", <<<<-1, <<7366, 3384, 18266, 149>>, -78>>, <<-1, <<10695, 3995, 32027, 142>>, -55>>>>, <<1, <<10734, 3995, 32027, 142>>, -55>>>>,
    <<"hypot", <<<<-1, <<7566, 3286, 18266, 149>>, -78>>, <<1, <<7481, 17573, 32026, 142>>, -55>>>>, <<1, <<7520, 17573, 32026, 142>>, -55>>>>,
    <<"hypot", <<<<-1, <<2318, 22293, 741, 212>>, -79>>, <<-1, <<3754, 12775, 2029, 201>>, -52>>>>, <<1, <<3754, 12775, 2029, 201>>, -52>>>>,
    <<"hypot", <<<<-1, <<12572, 20306, 741, 212>>, -79>>, <<1, <<11544, 10376, 2029, 201>>, -52>>>>, <<1, <<11544, 10376, 2029, 201>>, -52>>>>,
    <<"hypot", <<<<-1, <<26500, 13319, 25694, 221>>, -106>>, <<0, <<>>, 0>>>>, <<1, <<26500, 13319, 25694, 221>>, -106>>>>,
    <<"hypot", <<<<0, <<>>, 0>>, <<-1, <<11544, 10376, 2029, 201>>, -52>>>>, <<1, <<11544, 10376, 2029, 201>>, -52>>>>,
    <<"hypot", <<<<0, <<>>, 0>>, <<-1, <<22897, 32755, 6217, 183>>, -52>>>>, <<1, <<22897, 32755, 6217, 183>>, -52>>>>,
    <<"hypot", <<<<0, <<>>, 0>>, <<-1, <<28896, 27961, 27837, 160>>, -54>>>>, <<1, <<28896, 27961, 27837, 160>>, -54>>>>,
    <<"hypot", <<<<0, <<>>, 0>>, <<-1, <<7481, 17573, 32026, 142>>, -55>>>>, <<1, <<7481, 17573, 32026, 142>>, -55>>>>,
    <<"hypot", <<<<0, <<>>, 0>>, <<0, <<>>, 0>>>>, <<0, <<>>, 0>>>>,
    <<"hypot", <<<<0, <<>>, 0>>, <<1, <<7481, 17573, 32026, 142>>, -55>>>>, <<1, <<7481, 17573, 32026, 142>>, -55>>>>,
    <<"hypot", <<<<0, <<>>, 0>>, <<1, <<28896, 27961, 27837, 160>>, -54>>>>, <<1, <<28896, 27961, 27837, 160>>, -54>>>>,
    <<"hypot", <<<<0, <<>>, 0>>, <<1, <<22897, 32755, 6217, 183>>, -52>>>>, <<1, <<22897, 32755, 6217, 183>>, -52>>>>,
    <<"hypot", <<<<0, <<>>, 0>>, <<1, <<11544, 10376, 2029, 201>>, -52>>>>, <<1, <<11544, 10376, 2029, 201>>, -52>>>>,
    <<"hypot", <<<<1, <<26500, 13319, 25694, 221>>, -106>>, <<0, <<>>, 0>>>>, <<1, <<26500, 13319, 25694, 221>>, -106>>>>,
    <<"hypot", <<<<1, <<12572, 20306, 741, 212>>, -79>>, <<-1, <<11544, 10376, 2029, 201>>, -52>>>>, <<1, <<11544, 10376, 2029, 201>>, -52>>>>,
    <<"hypot", <<<<1, <<2318, 22293, 741, 212>>, -79>>, <<1, <<3754, 12775, 2029, 201>>, -52>>>>, <<1, <<3754, 12775, 2029, 201>>, -52>>>>,
    <<"hypot", <<<<1, <<7566, 3286, 18266, 149>>, -78>>, <<-1, <<7481, 17573, 32026, 142>>, -55>>>>, <<1, <<7520, 17573, 32026, 142>>, -55>>>>,
    <<"hypot", <<<<1, <<7366, 3384, 18266, 149>>, -78>>, <<1, <<10695, 3995, 32027, 142>>, -55>>>>, <<1, <<10734, 3995, 32027, 142>>, -55>>>>,
    <<"hypot", <<<<1, <<16109, 3459, 30233, 149>>, -78>>, <<0, <<>>, 0>>>>, <<1, <<16109, 3459, 30233, 149>>, -78>>>>,
    <<"hypot", <<<<1, <<16109, 3459, 30233, 149>>, -78>>, <<1, <<16109, 3459, 30233, 149>>, -78>>>>, <<1, <<12572, 20306, 741, 212>>, -78>>>>,
    <<"hypot", <<<<1, <<16109, 3459, 30233, 149>>, -77>>, <<1, <<16109, 3459, 30233, 149>>, -78>>>>, <<1, <<26081, 18460, 20270, 167>>, -77>>>>,
    <<"hypot", <<<<1, <<16858, 30929, 25094, 153>>, -56>>, <<-1, <<14024, 23920, 15580, 167>>, -53>>>>, <<1, <<4385, 6050, 18836, 168>>, -53>>>>,
    <<"hypot", <<<<1, <<24710, 18700, 22529, 206>>, -55>>, <<1, <<31770, 8822, 29623, 198>>, -53>>>>, <<1, <<21695, 2653, 16587, 205>>, -53>>>>,
    <<"hypot", <<<<1, <<15723, 10999, 19501, 214>>, -55>>, <<1, <<9064, 29600, 21245, 234>>, -53>>>>, <<1, <<12303, 28310, 23043, 240>>, -53>>>>,
    <<"hypot", <<<<1, <<9621, 28209, 19501, 214>>, -55>>, <<1, <<9064, 29600, 21245, 234>>, -53>>>>, <<1, <<10532, 29269, 23043, 240>>, -53>>>>,
    <<"hypot", <<<<1, <<3016, 13643, 19502, 214>>, -55>>, <<1, <<26251, 1629, 21246, 234>>, -53>>>>, <<1, <<12611, 2192, 23044, 240>>, -53>>>>,
    <<"hypot", <<<<1, <<6762, 19843, 31531, 219>>, -54>>, <<1, <<14024, 23920, 15580, 167>>, -53>>>>, <<1, <<31742, 24573, 11776, 200>>, -53>>>>,
    <<"hypot", <<<<1, <<31, 5336, 7868, 129>>, -52>>, <<-1, <<17543, 5582, 23649, 178>>, -52>>>>, <<1, <<26404, 20744, 18182, 220>>, -52>>>>,
    <<"hypot", <<<<1, <<31991, 17896, 29769, 131>>, -52>>, <<1, <<22897, 32755, 6217, 183>>, -52>>>>, <<1, <<30066, 4590, 24233, 225>>, -52>>>>,
    <<"hypot", <<<<1, <<19383, 12058, 5644, 142>>, -52>>, <<1, <<11544, 10376, 2029, 201>>, -52>>>>, <<1, <<13642, 26030, 8177, 246>>, -52>>>>,
    <<"hypot", <<<<1, <<25316, 13754, 5644, 142>>, -52>>, <<1, <<11544, 10376, 2029, 201>>, -52>>>>, <<1, <<23164, 27009, 8177, 246>>, -52>>>>,
    <<"hypot", <<<<1, <<4298, 16783, 5644, 142>>, -52>>, <<1, <<3754, 12775, 2029, 201>>, -52>>>>, <<1, <<23322, 30716, 8177, 246>>, -52>>>>,
    <<"hypot", <<<<1, <<18270, 18782, 24358, 151>>, -52>>, <<-1, <<191, 20765, 30608, 218>>, -52>>>>, <<1, <<29370, 12624, 6222, 133>>, -51>>>>,
    <<"hypot", <<<<1, <<31, 5336, 7868, 129>>, -51>>, <<-1, <<17543, 5582, 23649, 178>>, -52>>>>, <<1, <<20189, 31693, 4106, 157>>, -51>>>>,
    <<"hypot", <<<<1, <<31, 5336, 7868, 129>>, -51>>, <<1, <<17543, 5582, 23649, 178>>, -52>>>>, <<1, <<20189, 31693, 4106, 157>>, -51>>>>,
    <<"hypot", <<<<1, <<18270, 18782, 24358, 151>>, -51>>, <<-1, <<191, 20765, 30608, 218>>, -52>>>>, <<1, <<27176, 30944, 3510, 187>>, -51>>>>,
    <<"hypot", <<<<1, <<19726, 32205, 2956, 159>>, -51>>, <<-1, <<21062, 20012, 31717, 189>>, -53>>>>, <<1, <<1771, 9240, 907, 166>>, -51>>>>,
    <<"hypot", <<<<1, <<4117, 4154, 7817, 172>>, -51>>, <<-1, <<25947, 8804, 6434, 135>>, -52>>>>, <<1, <<26350, 26602, 941, 185>>, -51>>>>,
    <<"hypot", <<<<1, <<29317, 23862, 21600, 184>>, -51>>, <<1, <<21062, 20012, 31717, 189>>, -53>>>>, <<1, <<5598, 7163, 21908, 190>>, -51>>>>,
    <<"hypot", <<<<1, <<46, 8004, 28186, 193>>, -51>>, <<1, <<17543, 5582, 23649, 178>>, -52>>>>, <<1, <<1660, 21217, 15223, 213>>, -51>>>>,
    <<"hypot", <<<<1, <<15456, 6975, 19219, 198>>, -51>>, <<-1, <<7480, 17573, 32026, 142>>, -57>>>>, <<1, <<18661, 31473, 19630, 198>>, -51>>>>,
    <<"hypot", <<<<1, <<15456, 6975, 19219, 198>>, -51>>, <<1, <<7480, 17573, 32026, 142>>, -57>>>>, <<1, <<18661, 31473, 19630, 198>>, -51>>>>,
    <<"hypot", <<<<1, <<17449, 14395, 9726, 200>>, -51>>, <<1, <<17543, 5582, 23649, 178>>, -55>>>>, <<1, <<3819, 20758, 19924, 200>>, -51>>>>,
    <<"hypot", <<<<1, <<24001, 14559, 9726, 200>>, -51>>, <<-1, <<20757, 24772, 23649, 178>>, -55>>>>, <<1, <<27682, 20988, 19924, 200>>, -51>>>>,
    <<"hypot", <<<<1, <<11456, 15590, 9726, 200>>, -51>>, <<-1, <<17543, 5582, 23649, 178>>, -55>>>>, <<1, <<2622, 21951, 19924, 200>>, -51>>>>,
    <<"hypot", <<<<1, <<11456, 15590, 9726, 200>>, -51>>, <<1, <<17543, 5582, 23649, 178>>, -55>>>>, <<1, <<2622, 21951, 19924, 200>>, -51>>>>,
    <<"hypot", <<<<1, <<5464, 16785, 9726, 200>>, -51>>, <<-1, <<17543, 5582, 23649, 178>>, -55>>>>, <<1, <<1426, 23144, 19924, 200>>, -51>>>>,
    <<"hypot", <<<<1, <<12017, 16949, 9726, 200>>, -51>>, <<1, <<20757, 24772, 23649, 178>>, -55>>>>, <<1, <<25290, 23374, 19924, 200>>, -51>>>>,
    <<"hypot", <<<<1, <<27676, 9024, 18748, 200>>, -51>>, <<-1, <<7481, 17573, 32026, 142>>, -55>>>>, <<1, <<30516, 32451, 25267, 200>>, -51>>>>,
    <<"hypot", <<<<1, <<9964, 10221, 18748, 200>>, -51>>, <<-1, <<7481, 17573, 32026, 142>>, -55>>>>, <<1, <<6719, 879, 25268, 200>>, -51>>>>,
    <<"hypot", <<<<1, <<11258, 11286, 18748, 200>>, -51>>, <<-1, <<4267, 31151, 32025, 142>>, -55>>>>, <<1, <<26412, 1889, 25268, 200>>, -51>>>>,
    <<"hypot", <<<<1, <<11544, 10376, 2029, 201>>, -51>>, <<-1, <<7481, 17573, 32026, 142>>, -54>>>>, <<1, <<15458, 11183, 28006, 201>>, -51>>>>,
    <<"hypot", <<<<1, <<19310, 24817, 240, 198>>, -50>>, <<0, <<>>, 0>>>>, <<1, <<19310, 24817, 240, 198>>, -50>>>>,
    <<"hypot", <<<<1, <<12910, 28568, 1025, 201>>, -50>>, <<-1, <<28896, 27961, 27837, 160>>, -54>>>>, <<1, <<14615, 15724, 9257, 201>>, -50>>>>,
    <<"pow", <<<<-1, <<0, 0, 0, 128>>, -52>>, <<1, <<0, 0, 0, 128>>, -51>>>>, <<1, <<0, 0, 0, 128>>, -52>>>>,
    <<"pow", <<<<-1, <<12562, 32765, 32767, 255>>, -53>>, <<1, <<0, 0, 0, 128>>, -51>>>>, <<1, <<25124, 32762, 32767, 255>>, -53>>>>,
    <<"pow", <<<<-1, <<17479, 32757, 32767, 255>>, -53>>, <<1, <<0, 0, 0, 128>>, -51>>>>, <<1, <<2190, 32747, 32767, 255>>, -53>>>>,
    <<"pow", <<<<-1, <<4381, 32726, 32767, 255>>, -53>>, <<1, <<0, 0, 0, 128>>, -51>>>>, <<1, <<8762, 32684, 32767, 255>>, -53>>>>,
    <<"pow", <<<<-1, <<14407, 11841, 8342, 254>>, -53>>, <<1, <<0, 0, 0, 128>>, -51>>>>, <<1, <<9806, 21945, 17074, 252>>, -53>>>>,
    <<"pow", <<<<-1, <<7223, 26946, 6738, 193>>, -53>>, <<1, <<0, 0, 0, 128>>, -51>>>>, <<1, <<13251, 9635, 26678, 145>>, -53>>>>,
    <<"pow", <<<<-1, <<21241, 21406, 633, 181>>, -53>>, <<1, <<0, 0, 0, 128>>, -51>>>>, <<1, <<24977, 2398, 0, 128>>, -53>>>>,
    <<"pow", <<<<-1, <<15309, 19710, 633, 181>>, -53>>, <<1, <<0, 0, 0, 128>>, -51>>>>, <<1, <<1, 0, 0, 128>>, -53>>>>,
    <<"pow", <<<<-1, <<15308, 19710, 633, 181>>, -53>>, <<1, <<0, 0, 0, 128>>, -51>>>>, <<1, <<32766, 32767, 32767, 255>>, -54>>>>,
    <<"pow", <<<<-1, <<9375, 18014, 633, 181>>, -53>>, <<1, <<0, 0, 0, 128>>, -51>>>>, <<1, <<15580, 27970, 32767, 255>>, -54>>>>,
    <<"pow", <<<<-1, <<20436, 624, 31166, 167>>, -53>>, <<1, <<0, 0, 0, 128>>, -51>>>>, <<1, <<6265, 13497, 12179, 220>>, -54>>>>,
    <<"pow", <<<<-1, <<5660, 9336, 18141, 164>>, -53>>, <<1, <<0, 0, 0, 128>>, -51>>>>, <<1, <<8988, 16634, 17893, 211>>, -54>>>>,
    <<"pow", <<<<-1, <<25083, 9918, 22379, 158>>, -53>>, <<1, <<0, 0, 0, 128>>, -51>>>>, <<1, <<7956, 10206, 23624, 196>>, -54>>>>,
    <<"pow", <<<<-1, <<22370, 23881, 32735, 128>>, -53>>, <<1, <<0, 0, 0, 128>>, -51>>>>, <<1, <<21392, 31248, 190, 130>>, -54>>>>,
    <<"pow", <<<<-1, <<16430, 2274, 17042, 226>>, -54>>, <<1, <<0, 0, 0, 128>>, -51>>>>, <<1, <<13886, 17236, 14252, 200>>, -55>>>>,
    <<"pow", <<<<-1, <<1572, 30740, 17041, 226>>, -54>>, <<1, <<0, 0, 0, 128>>, -51>>>>, <<1, <<13861, 9622, 14252, 200>>, -55>>>>,
    <<"pow", <<<<-1, <<26984, 6851, 30754, 193>>, -54>>, <<1, <<0, 0, 0, 128>>, -51>>>>, <<1, <<678, 10866, 30228, 146>>, -55>>>>,
    <<"pow", <<<<-1, <<21017, 31377, 20945, 185>>, -54>>, <<1, <<0, 0, 0, 128>>, -51>>>>, <<1, <<26857, 24751, 20213, 134>>, -55>>>>,
    <<"pow", <<<<-1, <<29503, 9477, 16545, 164>>, -54>>, <<1, <<0, 0, 0, 128>>, -51>>>>, <<1, <<13168, 18676, 13790, 211>>, -56>>>>,
    <<"pow", <<<<-1, <<21365, 20304, 6189, 160>>, -55>>, <<1, <<0, 0, 0, 128>>, -51>>>>, <<1, <<12298, 6005, 15483, 200>>, -58>>>>,
    <<"pow", <<<<-1, <<7705, 11547, 16818, 142>>, -55>>, <<1, <<0, 0, 0, 128>>, -51>>>>, <<1, <<18436, 5168, 22023, 158>>, -58>>>>,
    <<"pow", <<<<-1, <<12204, 24593, 24377, 238>>, -56>>, <<1, <<0, 0, 0, 128>>, -51>>>>, <<1, <<30488, 7305, 21334, 222>>, -59>>>>,
    <<"pow", <<<<-1, <<3693, 5534, 24377, 238>>, -56>>, <<1, <<0, 0, 0, 128>>, -51>>>>, <<1, <<27728, 4524, 21333, 222>>, -59>>>>,
    <<"pow", <<<<-1, <<27950, 19242, 24376, 238>>, -56>>, <<1, <<0, 0, 0, 128>>, -51>>>>, <<1, <<25054, 1743, 21332, 222>>, -59>>>>,
    <<"pow", <<<<-1, <<2682, 15410, 16219, 178>>, -56>>, <<1, <<0, 0, 0, 128>>, -51>>>>, <<1, <<5440, 4023, 29813, 248>>, -60>>>>,
    <<"pow", <<<<-1, <<258, 29061, 16218, 178>>, -56>>, <<1, <<0, 0, 0, 128>>, -51>>>>, <<1, <<31272, 16241, 29811, 248>>, -60>>>>,
    <<"pow", <<<<-1, <<32309, 9627, 28222, 142>>, -56>>, <<1, <<0, 0, 0, 128>>, -51>>>>, <<1, <<22693, 3745, 14680, 159>>, -60>>>>,
    <<"pow", <<<<-1, <<20776, 23252, 28221, 142>>, -56>>, <<1, <<0, 0, 0, 128>>, -51>>>>, <<1, <<24987, 26549, 14678, 159>>, -60>>>>,
    <<"pow", <<<<-1, <<9242, 4109, 28221, 142>>, -56>>, <<1, <<0, 0, 0, 128>>, -51>>>>, <<1, <<27454, 16585, 14677, 159>>, -60>>>>,
    <<"pow", <<<<-1, <<23837, 22291, 31788, 142>>, -58>>, <<1, <<0, 0, 0, 128>>, -51>>>>, <<1, <<25893, 2004, 22644, 159>>, -64>>>>,
    <<"pow", <<<<-1, <<8079, 26969, 25299, 140>>, -68>>, <<1, <<0, 0, 0, 128>>, -51>>>>, <<1, <<12977, 31788, 26823, 154>>, -84>>>>,
    <<"pow", <<<<-1, <<26100, 14945, 25435, 202>>, -69>>, <<1, <<0, 0, 0, 128>>, -51>>>>, <<1, <<10405, 14847, 20249, 160>>, -85>>>>,
    <<"pow", <<<<-1, <<13582, 16944, 13396, 146>>, -69>>, <<1, <<0, 0, 0, 128>>, -51>>>>, <<1, <<26498, 19425, 15243, 167>>, -86>>>>,
    <<"pow", <<<<-1, <<20534, 3603, 32496, 140>>, -69>>, <<1, <<0, 0, 0, 128>>, -51>>>>, <<1, <<25319, 324, 9897, 155>>, -86>>>>,
    <<"pow", <<<<-1, <<9685, 24786, 15387, 225>>, -71>>, <<1, <<0, 0, 0, 128>>, -51>>>>, <<1, <<14409, 567, 19013, 198>>, -89>>>>,
    <<"pow", <<<<-1, <<3553, 5407, 7241, 162>>, -71>>, <<1, <<0, 0, 0, 128>>, -51>>>>, <<1, <<1500, 22947, 19365, 205>>, -90>>>>,
    <<"pow", <<<<-1, <<4914, 28000, 1809, 226>>, -72>>, <<1, <<0, 0, 0, 128>>, -51>>>>, <<1, <<31883, 29976, 20091, 199>>, -91>>>>,
    <<"pow", <<<<-1, <<20238, 11250, 3801, 199>>, -73>>, <<1, <<0, 0, 0, 128>>, -51>>>>, <<1, <<10881, 20433, 28567, 154>>, -93>>>>,
    <<"pow", <<<<-1, <<11937, 12516, 13215, 187>>, -76>>, <<1, <<0, 0, 0, 128>>, -51>>>>, <<1, <<26731, 21841, 6143, 137>>, -99>>>>,
    <<"pow", <<<<-1, <<16109, 3459, 30233, 149>>, -78>>, <<1, <<0, 0, 0, 128>>, -51>>>>, <<1, <<28986, 12228, 19660, 175>>, -104>>>>,
    <<"pow", <<<<-1, <<16109, 3459, 30233, 149>>, -79>>, <<1, <<0, 0, 0, 128>>, -51>>>>, <<1, <<28986, 12228, 19660, 175>>, -106>>>>,
    <<"pow", <<<<-1, <<23559, 26152, 6296, 141>>, -105>>, <<1, <<0, 0, 0, 128>>, -51>>>>, <<1, <<23880, 2836, 24378, 155>>, -158>>>>,
    <<"pow", <<<<0, <<>>, 0>>, <<1, <<0, 0, 0, 128>>, -51>>>>, <<0, <<>>, 0>>>>,
    <<"pow", <<<<1, <<23559, 26152, 6296, 141>>, -105>>, <<1, <<0, 0, 0, 128>>, -51>>>>, <<1, <<23880, 2836, 24378, 155>>, -158>>>>,
    <<"pow", <<<<1, <<16109, 3459, 30233, 149>>, -79>>, <<1, <<0, 0, 0, 128>>, -51>>>>, <<1, <<28986, 12228, 19660, 175>>, -106>>>>,
    <<"pow", <<<<1, <<16109, 3459, 30233, 149>>, -78>>, <<1, <<0, 0, 0, 128>>, -51>>>>, <<1, <<28986, 12228, 19660, 175>>, -104>>>>,
    <<"pow", <<<<1, <<16384, 3459, 30233, 149>>, -78>>, <<1, <<0, 0, 0, 128>>, -51>>>>, <<1, <<29630, 12228, 19660, 175>>, -104>>>>,
    <<"pow", <<<<1, <<16383, 3459, 30233, 149>>, -77>>, <<1, <<0, 0, 0, 128>>, -51>>>>, <<1, <<29628, 12228, 19660, 175>>, -102>>>>,
    <<"pow", <<<<1, <<1813, 31699, 5973, 131>>, -75>>, <<1, <<0, 0, 0, 128>>, -51>>>>, <<1, <<24252, 15506, 14540, 134>>, -98>>>>,
    <<"pow", <<<<1, <<23178, 22107, 9594, 159>>, -74>>, <<1, <<0, 0, 0, 128>>, -51>>>>, <<1, <<8455, 23533, 7730, 198>>, -96>>>>,
    <<"pow", <<<<1, <<27297, 29898, 15930, 208>>, -73>>, <<1, <<0, 0, 0, 128>>, -51>>>>, <<1, <<9947, 32352, 25917, 169>>, -93>>>>,
    <<"pow", <<<<1, <<31637, 31698, 5973, 131>>, -71>>, <<1, <<0, 0, 0, 128>>, -51>>>>, <<1, <<18218, 15506, 14540, 134>>, -90>>>>,
    <<"pow", <<<<1, <<28713, 13781, 22629, 175>>, -71>>, <<1, <<0, 0, 0, 128>>, -51>>>>, <<1, <<7399, 13561, 4911, 241>>, -90>>>>,
    <<"pow", <<<<1, <<4107, 18943, 18827, 188>>, -71>>, <<1, <<0, 0, 0, 128>>, -51>>>>, <<1, <<7190, 8597, 29743, 138>>, -89>>>>,
    <<"pow", <<<<1, <<21800, 15827, 23715, 247>>, -71>>, <<1, <<0, 0, 0, 128>>, -51>>>>, <<1, <<23759, 16951, 23430, 239>>, -89>>>>,
    <<"pow", <<<<1, <<20536, 3603, 32496, 140>>, -69>>, <<1, <<0, 0, 0, 128>>, -51>>>>, <<1, <<25323, 324, 9897, 155>>, -86>>>>,
    <<"pow", <<<<1, <<8079, 26969, 25299, 140>>, -68>>, <<1, <<0, 0, 0, 128>>, -51>>>>, <<1, <<12977, 31788, 26823, 154>>, -84>>>>,
    <<"pow", <<<<1, <<21586, 21120, 361, 183>>, -67>>, <<1, <<0, 0, 0, 128>>, -51>>>>, <<1, <<27121, 1778, 27269, 130>>, -81>>>>,
    <<"pow", <<<<1, <<3099, 19756, 8372, 184>>, -67>>, <<1, <<0, 0, 0, 128>>, -51>>>>, <<1, <<12577, 31893, 20235, 132>>, -81>>>>,
    <<"pow", <<<<1, <<23837, 22291, 31788, 142>>, -58>>, <<1, <<0, 0, 0, 128>>, -51>>>>, <<1, <<25893, 2004, 22644, 159>>, -64>>>>,
    <<"pow", <<<<1, <<28537, 21674, 25300, 142>>, -56>>, <<1, <<0, 0, 0, 128>>, -51>>>>, <<1, <<24032, 15071, 8160, 159>>, -60>>>>,
    <<"pow", <<<<1, <<3732, 28427, 28215, 142>>, -56>>, <<1, <<0, 0, 0, 128>>, -51>>>>, <<1, <<24737, 25214, 14665, 159>>, -60>>>>,
    <<"pow", <<<<1, <<9242, 4109, 28221, 142>>, -56>>, <<1, <<0, 0, 0, 128>>, -51>>>>, <<1, <<27454, 16585, 14677, 159>>, -60>>>>,
    <<"pow", <<<<1, <<20776, 23252, 28221, 142>>, -56>>, <<1, <<0, 0, 0, 128>>, -51>>>>, <<1, <<24987, 26549, 14678, 159>>, -60>>>>,
    <<"pow", <<<<1, <<32309, 9627, 28222, 142>>, -56>>, <<1, <<0, 0, 0, 128>>, -51>>>>, <<1, <<22693, 3745, 14680, 159>>, -60>>>>,
    <<"pow", <<<<1, <<22761, 31857, 28396, 142>>, -56>>, <<1, <<0, 0, 0, 128>>, -51>>>>, <<1, <<24708, 1310, 15070, 159>>, -60>>>>,
    <<"pow", <<<<1, <<11555, 24538, 31142, 142>>, -56>>, <<1, <<0, 0, 0, 128>>, -51>>>>, <<1, <<4646, 6856, 21201, 159>>, -60>>>>,
    <<"pow", <<<<1, <<258, 29061, 16218, 178>>, -56>>, <<1, <<0, 0, 0, 128>>, -51>>>>, <<1, <<31272, 16241, 29811, 248>>, -60>>>>,
    <<"pow", <<<<1, <<2682, 15410, 16219, 178>>, -56>>, <<1, <<0, 0, 0, 128>>, -51>>>>, <<1, <<5440, 4023, 29813, 248>>, -60>>>>,
    <<"pow", <<<<1, <<27950, 19242, 24376, 238>>, -56>>, <<1, <<0, 0, 0, 128>>, -51>>>>, <<1, <<25054, 1743, 21332, 222>>, -59>>>>,
    <<"pow", <<<<1, <<3693, 5534, 24377, 238>>, -56>>, <<1, <<0, 0, 0, 128>>, -51>>>>, <<1, <<27728, 4524, 21333, 222>>, -59>>>>,
    <<"pow", <<<<1, <<12204, 24593, 24377, 238>>, -56>>, <<1, <<0, 0, 0, 128>>, -51>>>>, <<1, <<30488, 7305, 21334, 222>>, -59>>>>,
    <<"pow", <<<<1, <<7705, 11547, 16818, 142>>, -55>>, <<1, <<0, 0, 0, 128>>, -51>>>>, <<1, <<18436, 5168, 22023, 158>>, -58>>>>,
    <<"pow", <<<<1, <<21365, 20304, 6189, 160>>, -55>>, <<1, <<0, 0, 0, 128>>, -51>>>>, <<1, <<12298, 6005, 15483, 200>>, -58>>>>,
    <<"pow", <<<<1, <<29503, 9477, 16545, 164>>, -54>>, <<1, <<0, 0, 0, 128>>, -51>>>>, <<1, <<13168, 18676, 13790, 211>>, -56>>>>,
    <<"pow", <<<<1, <<21017, 31377, 20945, 185>>, -54>>, <<1, <<0, 0, 0, 128>>, -51>>>>, <<1, <<26857, 24751, 20213, 134>>, -55>>>>,
    <<"pow", <<<<1, <<26984, 6851, 30754, 193>>, -54>>, <<1, <<0, 0, 0, 128>>, -51>>>>, <<1, <<678, 10866, 30228, 146>>, -55>>>>,
    <<"pow", <<<<1, <<1572, 30740, 17041, 226>>, -54>>, <<1, <<0, 0, 0, 128>>, -51>>>>, <<1, <<13861, 9622, 14252, 200>>, -55>>>>,
    <<"pow", <<<<1, <<16430, 2274, 17042, 226>>, -54>>, <<1, <<0, 0, 0, 128>>, -51>>>>, <<1, <<13886, 17236, 14252, 200>>, -55>>>>,
    <<"pow", <<<<1, <<22370, 23881, 32735, 128>>, -53>>, <<1, <<0, 0, 0, 128>>, -51>>>>, <<1, <<21392, 31248, 190, 130>>, -54>>>>,
    <<"pow", <<<<1, <<25083, 9918, 22379, 158>>, -53>>, <<1, <<0, 0, 0, 128>>, -51>>>>, <<1, <<7956, 10206, 23624, 196>>, -54>>>>,
    <<"pow", <<<<1, <<5660, 9336, 18141, 164>>, -53>>, <<1, <<0, 0, 0, 128>>, -51>>>>, <<1, <<8988, 16634, 17893, 211>>, -54>>>>,
    <<"pow", <<<<1, <<20436, 624, 31166, 167>>, -53>>, <<1, <<0, 0, 0, 128>>, -51>>>>, <<1, <<6265, 13497, 12179, 220>>, -54>>>>,
    <<"pow", <<<<1, <<9375, 18014, 633, 181>>, -53>>, <<1, <<0, 0, 0, 128>>, -51>>>>, <<1, <<15580, 27970, 32767, 255>>, -54>>>>,
    <<"pow", <<<<1, <<15308, 19710, 633, 181>>, -53>>, <<1, <<0, 0, 0, 128>>, -51>>>>, <<1, <<32766, 32767, 32767, 255>>, -54>>>>,
    <<"pow", <<<<1, <<15309, 19710, 633, 181>>, -53>>, <<1, <<0, 0, 0, 128>>, -51>>>>, <<1, <<1, 0, 0, 128>>, -53>>>>,
    <<"pow", <<<<1, <<21241, 21406, 633, 181>>, -53>>, <<1, <<0, 0, 0, 128>>, -51>>>>, <<1, <<24977, 2398, 0, 128>>, -53>>>>,
    <<"pow", <<<<1, <<7223, 26946, 6738, 193>>, -53>>, <<1, <<0, 0, 0, 128>>, -51>>>>, <<1, <<13251, 9635, 26678, 145>>, -53>>>>,
    <<"pow", <<<<1, <<14407, 11841, 8342, 254>>, -53>>, <<1, <<0, 0, 0, 128>>, -51>>>>, <<1, <<9806, 21945, 17074, 252>>, -53>>>>,
    <<"pow", <<<<1, <<0, 0, 0, 128>>, -52>>, <<1, <<0, 0, 0, 128>>, -51>>>>, <<1, <<0, 0, 0, 128>>, -52>>>>,
    <<"sin", <<<<-1, <<11544, 10376, 2029, 201>>, -51>>>>, <<-1, <<23559, 26152, 6296, 141>>, -105>>>>,
    <<"sin", <<<<-1, <<8658, 32358, 26097, 150>>, -51>>>>, <<-1, <<15309, 19710, 633, 181>>, -53>>>>,
    <<"sin", <<<<-1, <<2272, 4787, 571, 216>>, -52>>>>, <<-1, <<14407, 11841, 8342, 254>>, -53>>>>,
    <<"sin", <<<<-1, <<24033, 11575, 2029, 201>>, -52>>>>, <<-1, <<0, 0, 0, 128>>, -52>>>>,
    <<"sin", <<<<-1, <<11544, 10376, 2029, 201>>, -52>>>>, <<-1, <<0, 0, 0, 128>>, -52>>>>,
    <<"sin", <<<<-1, <<31823, 9176, 2029, 201>>, -52>>>>, <<-1, <<0, 0, 0, 128>>, -52>>>>,
    <<"sin", <<<<-1, <<25810, 509, 2011, 201>>, -52>>>>, <<-1, <<12562, 32765, 32767, 255>>, -53>>>>,
    <<"sin", <<<<-1, <<7307, 23411, 1992, 201>>, -52>>>>, <<-1, <<17479, 32757, 32767, 255>>, -53>>>>,
    <<"sin", <<<<-1, <<3071, 3678, 1956, 201>>, -52>>>>, <<-1, <<4381, 32726, 32767, 255>>, -53>>>>,
    <<"sin", <<<<-1, <<20816, 15965, 3487, 186>>, -52>>>>, <<-1, <<14407, 11841, 8342, 254>>, -53>>>>,
    <<"sin", <<<<-1, <<191, 20765, 30608, 218>>, -53>>>>, <<-1, <<7223, 26946, 6738, 193>>, -53>>>>,
    <<"sin", <<<<-1, <<3754, 12775, 2029, 201>>, -53>>>>, <<-1, <<21241, 21406, 633, 181>>, -53>>>>,
    <<"sin", <<<<-1, <<11544, 10376, 2029, 201>>, -53>>>>, <<-1, <<15308, 19710, 633, 181>>, -53>>>>,
    <<"sin", <<<<-1, <<19334, 7977, 2029, 201>>, -53>>>>, <<-1, <<9375, 18014, 633, 181>>, -53>>>>,
    <<"sin", <<<<-1, <<22897, 32755, 6217, 183>>, -53>>>>, <<-1, <<20436, 624, 31166, 167>>, -53>>>>,
    <<"sin", <<<<-1, <<17543, 5582, 23649, 178>>, -53>>>>, <<-1, <<5660, 9336, 18141, 164>>, -53>>>>,
    <<"sin", <<<<-1, <<30088, 21554, 4945, 171>>, -53>>>>, <<-1, <<25083, 9918, 22379, 158>>, -53>>>>,
    <<"sin", <<<<-1, <<25947, 8804, 6434, 135>>, -53>>>>, <<-1, <<22370, 23881, 32735, 128>>, -53>>>>,
    <<"sin", <<<<-1, <<26251, 1629, 21246, 234>>, -54>>>>, <<-1, <<16430, 2274, 17042, 226>>, -54>>>>,
    <<"sin", <<<<-1, <<9064, 29600, 21245, 234>>, -54>>>>, <<-1, <<1572, 30740, 17041, 226>>, -54>>>>,
    <<"sin", <<<<-1, <<31770, 8822, 29623, 198>>, -54>>>>, <<-1, <<26984, 6851, 30754, 193>>, -54>>>>,
    <<"sin", <<<<-1, <<21062, 20012, 31717, 189>>, -54>>>>, <<-1, <<21017, 31377, 20945, 185>>, -54>>>>,
    <<"sin", <<<<-1, <<14024, 23920, 15580, 167>>, -54>>>>, <<-1, <<29503, 9477, 16545, 164>>, -54>>>>,
    <<"sin", <<<<-1, <<28896, 27961, 27837, 160>>, -55>>>>, <<-1, <<21365, 20304, 6189, 160>>, -55>>>>,
    <<"sin", <<<<-1, <<7481, 17573, 32026, 142>>, -55>>>>, <<-1, <<7705, 11547, 16818, 142>>, -55>>>>,
    <<"sin", <<<<-1, <<18700, 28065, 9437, 239>>, -56>>>>, <<-1, <<12204, 24593, 24377, 238>>, -56>>>>,
    <<"sin", <<<<-1, <<15486, 8875, 9437, 239>>, -56>>>>, <<-1, <<3693, 5534, 24377, 238>>, -56>>>>,
    <<"sin", <<<<-1, <<12272, 22453, 9436, 239>>, -56>>>>, <<-1, <<27950, 19242, 24376, 238>>, -56>>>>,
    <<"sin", <<<<-1, <<20757, 24772, 23649, 178>>, -56>>>>, <<-1, <<2682, 15410, 16219, 178>>, -56>>>>,
    <<"sin", <<<<-1, <<17543, 5582, 23649, 178>>, -56>>>>, <<-1, <<258, 29061, 16218, 178>>, -56>>>>,
    <<"sin", <<<<-1, <<10695, 3995, 32027, 142>>, -56>>>>, <<-1, <<32309, 9627, 28222, 142>>, -56>>>>,
    <<"sin", <<<<-1, <<7481, 17573, 32026, 142>>, -56>>>>, <<-1, <<20776, 23252, 28221, 142>>, -56>>>>,
    <<"sin", <<<<-1, <<4267, 31151, 32025, 142>>, -56>>>>, <<-1, <<9242, 4109, 28221, 142>>, -56>>>>,
    <<"sin", <<<<-1, <<7480, 17573, 32026, 142>>, -58>>>>, <<-1, <<23837, 22291, 31788, 142>>, -58>>>>,
    <<"sin", <<<<-1, <<11174, 26976, 25299, 140>>, -68>>>>, <<-1, <<8079, 26969, 25299, 140>>, -68>>>>,
    <<"sin", <<<<-1, <<3196, 14951, 25435, 202>>, -69>>>>, <<-1, <<26100, 14945, 25435, 202>>, -69>>>>,
    <<"sin", <<<<-1, <<13428, 16946, 13396, 146>>, -69>>>>, <<-1, <<13582, 16944, 13396, 146>>, -69>>>>,
    <<"sin", <<<<-1, <<13388, 3605, 32496, 140>>, -69>>>>, <<-1, <<20534, 3603, 32496, 140>>, -69>>>>,
    <<"sin", <<<<-1, <<23870, 6187, 31681, 245>>, -71>>>>, <<-1, <<4494, 6187, 31681, 245>>, -71>>>>,
    <<"sin", <<<<-1, <<24610, 24786, 15387, 225>>, -71>>>>, <<-1, <<9685, 24786, 15387, 225>>, -71>>>>,
    <<"sin", <<<<-1, <<9112, 5407, 7241, 162>>, -71>>>>, <<-1, <<3553, 5407, 7241, 162>>, -71>>>>,
    <<"sin", <<<<-1, <<8674, 28000, 1809, 226>>, -72>>>>, <<-1, <<4914, 28000, 1809, 226>>, -72>>>>,
    <<"sin", <<<<-1, <<20880, 11250, 3801, 199>>, -73>>>>, <<-1, <<20238, 11250, 3801, 199>>, -73>>>>,
    <<"sin", <<<<-1, <<12534, 10519, 7784, 145>>, -73>>>>, <<-1, <<12285, 10519, 7784, 145>>, -73>>>>,
    <<"sin", <<<<-1, <<8959, 17579, 18103, 140>>, -73>>>>, <<-1, <<8733, 17579, 18103, 140>>, -73>>>>,
    <<"sin", <<<<-1, <<5383, 24639, 28422, 135>>, -73>>>>, <<-1, <<5179, 24639, 28422, 135>>, -73>>>>,
    <<"sin", <<<<-1, <<19095, 31164, 25344, 196>>, -74>>>>, <<-1, <<18940, 31164, 25344, 196>>, -74>>>>,
    <<"sin", <<<<-1, <<11945, 12516, 13215, 187>>, -75>>>>, <<-1, <<11912, 12516, 13215, 187>>, -75>>>>,
    <<"sin", <<<<-1, <<11945, 12516, 13215, 187>>, -76>>>>, <<-1, <<11937, 12516, 13215, 187>>, -76>>>>,
    <<"sin", <<<<-1, <<16109, 3459, 30233, 149>>, -78>>>>, <<-1, <<16109, 3459, 30233, 149>>, -78>>>>,
    <<"sin", <<<<-1, <<16109, 3459, 30233, 149>>, -79>>>>, <<-1, <<16109, 3459, 30233, 149>>, -79>>>>,
    <<"sin", <<<<0, <<>>, 0>>>>, <<0, <<>>, 0>>>>,
    <<"sin", <<<<1, <<16109, 3459, 30233, 149>>, -79>>>>, <<1, <<16109, 3459, 30233, 149>>, -79>>>>,
    <<"sin", <<<<1, <<16109, 3459, 30233, 149>>, -78>>>>, <<1, <<16109, 3459, 30233, 149>>, -78>>>>,
    <<"sin", <<<<1, <<16384, 3459, 30233, 149>>, -78>>>>, <<1, <<16384, 3459, 30233, 149>>, -78>>>>,
    <<"sin", <<<<1, <<16109, 3459, 30233, 149>>, -77>>>>, <<1, <<16108, 3459, 30233, 149>>, -77>>>>,
    <<"sin", <<<<1, <<16384, 3459, 30233, 149>>, -77>>>>, <<1, <<16383, 3459, 30233, 149>>, -77>>>>,
    <<"sin", <<<<1, <<16109, 3459, 30233, 149>>, -76>>>>, <<1, <<16105, 3459, 30233, 149>>, -76>>>>,
    <<"sin", <<<<1, <<1824, 31699, 5973, 131>>, -75>>>>, <<1, <<1813, 31699, 5973, 131>>, -75>>>>,
    <<"sin", <<<<1, <<23260, 22107, 9594, 159>>, -74>>>>, <<1, <<23178, 22107, 9594, 159>>, -74>>>>,
    <<"sin", <<<<1, <<28034, 29898, 15930, 208>>, -73>>>>, <<1, <<27297, 29898, 15930, 208>>, -73>>>>,
    <<"sin", <<<<1, <<1808, 31699, 5973, 131>>, -71>>>>, <<1, <<31637, 31698, 5973, 131>>, -71>>>>,
    <<"sin", <<<<1, <<3006, 13782, 22629, 175>>, -71>>>>, <<1, <<28713, 13781, 22629, 175>>, -71>>>>,
    <<"sin", <<<<1, <<12838, 18943, 18827, 188>>, -71>>>>, <<1, <<4107, 18943, 18827, 188>>, -71>>>>,
    <<"sin", <<<<1, <<8826, 15828, 23715, 247>>, -71>>>>, <<1, <<21800, 15827, 23715, 247>>, -71>>>>,
    <<"sin", <<<<1, <<13390, 3605, 32496, 140>>, -69>>>>, <<1, <<20536, 3603, 32496, 140>>, -69>>>>,
    <<"sin", <<<<1, <<11174, 26976, 25299, 140>>, -68>>>>, <<1, <<8079, 26969, 25299, 140>>, -68>>>>,
    <<"sin", <<<<1, <<401, 21183, 361, 183>>, -67>>>>, <<1, <<21586, 21120, 361, 183>>, -67>>>>,
    <<"sin", <<<<1, <<23879, 19819, 8372, 184>>, -67>>>>, <<1, <<3099, 19756, 8372, 184>>, -67>>>>,
    <<"sin", <<<<1, <<7480, 17573, 32026, 142>>, -58>>>>, <<1, <<23837, 22291, 31788, 142>>, -58>>>>,
    <<"sin", <<<<1, <<29001, 11786, 29098, 142>>, -56>>>>, <<1, <<28537, 21674, 25300, 142>>, -56>>>>,
    <<"sin", <<<<1, <<8114, 22280, 32020, 142>>, -56>>>>, <<1, <<3732, 28427, 28215, 142>>, -56>>>>,
    <<"sin", <<<<1, <<4267, 31151, 32025, 142>>, -56>>>>, <<1, <<9242, 4109, 28221, 142>>, -56>>>>,
    <<"sin", <<<<1, <<7481, 17573, 32026, 142>>, -56>>>>, <<1, <<20776, 23252, 28221, 142>>, -56>>>>,
    <<"sin", <<<<1, <<10695, 3995, 32027, 142>>, -56>>>>, <<1, <<32309, 9627, 28222, 142>>, -56>>>>,
    <<"sin", <<<<1, <<21263, 7434, 32202, 142>>, -56>>>>, <<1, <<22761, 31857, 28396, 142>>, -56>>>>,
    <<"sin", <<<<1, <<18729, 23359, 2186, 143>>, -56>>>>, <<1, <<11555, 24538, 31142, 142>>, -56>>>>,
    <<"sin", <<<<1, <<17543, 5582, 23649, 178>>, -56>>>>, <<1, <<258, 29061, 16218, 178>>, -56>>>>,
    <<"sin", <<<<1, <<20757, 24772, 23649, 178>>, -56>>>>, <<1, <<2682, 15410, 16219, 178>>, -56>>>>,
    <<"sin", <<<<1, <<12272, 22453, 9436, 239>>, -56>>>>, <<1, <<27950, 19242, 24376, 238>>, -56>>>>,
    <<"sin", <<<<1, <<15486, 8875, 9437, 239>>, -56>>>>, <<1, <<3693, 5534, 24377, 238>>, -56>>>>,
    <<"sin", <<<<1, <<18700, 28065, 9437, 239>>, -56>>>>, <<1, <<12204, 24593, 24377, 238>>, -56>>>>,
    <<"sin", <<<<1, <<7481, 17573, 32026, 142>>, -55>>>>, <<1, <<7705, 11547, 16818, 142>>, -55>>>>,
    <<"sin", <<<<1, <<28896, 27961, 27837, 160>>, -55>>>>, <<1, <<21365, 20304, 6189, 160>>, -55>>>>,
    <<"sin", <<<<1, <<14024, 23920, 15580, 167>>, -54>>>>, <<1, <<29503, 9477, 16545, 164>>, -54>>>>,
    <<"sin", <<<<1, <<21062, 20012, 31717, 189>>, -54>>>>, <<1, <<21017, 31377, 20945, 185>>, -54>>>>,
    <<"sin", <<<<1, <<31770, 8822, 29623, 198>>, -54>>>>, <<1, <<26984, 6851, 30754, 193>>, -54>>>>,
    <<"sin", <<<<1, <<9064, 29600, 21245, 234>>, -54>>>>, <<1, <<1572, 30740, 17041, 226>>, -54>>>>,
    <<"sin", <<<<1, <<26251, 1629, 21246, 234>>, -54>>>>, <<1, <<16430, 2274, 17042, 226>>, -54>>>>,
    <<"sin", <<<<1, <<25947, 8804, 6434, 135>>, -53>>>>, <<1, <<22370, 23881, 32735, 128>>, -53>>>>,
    <<"sin", <<<<1, <<30088, 21554, 4945, 171>>, -53>>>>, <<1, <<25083, 9918, 22379, 158>>, -53>>>>,
    <<"sin", <<<<1, <<17543, 5582, 23649, 178>>, -53>>>>, <<1, <<5660, 9336, 18141, 164>>, -53>>>>,
    <<"sin", <<<<1, <<22897, 32755, 6217, 183>>, -53>>>>, <<1, <<20436, 624, 31166, 167>>, -53>>>>,
    <<"sin", <<<<1, <<19334, 7977, 2029, 201>>, -53>>>>, <<1, <<9375, 18014, 633, 181>>, -53>>>>,
    <<"sin", <<<<1, <<11544, 10376, 2029, 201>>, -53>>>>, <<1, <<15308, 19710, 633, 181>>, -53>>>>,
    <<"sin", <<<<1, <<3754, 12775, 2029, 201>>, -53>>>>, <<1, <<21241, 21406, 633, 181>>, -53>>>>,
    <<"sin", <<<<1, <<191, 20765, 30608, 218>>, -53>>>>, <<1, <<7223, 26946, 6738, 193>>, -53>>>>,
    <<"sin", <<<<1, <<20816, 15965, 3487, 186>>, -52>>>>, <<1, <<14407, 11841, 8342, 254>>, -53>>>>,
    <<"sin", <<<<1, <<31823, 9176, 2029, 201>>, -52>>>>, <<1, <<0, 0, 0, 128>>, -52>>>>,
    <<"sin", <<<<1, <<11544, 10376, 2029, 201>>, -52>>>>, <<1, <<0, 0, 0, 128>>, -52>>>>,
    <<"sin", <<<<1, <<24033, 11575, 2029, 201>>, -52>>>>, <<1, <<0, 0, 0, 128>>, -52>>>>,
    <<"sin", <<<<1, <<20999, 30948, 26853, 213>>, -52>>>>, <<1, <<12216, 30608, 23904, 254>>, -53>>>>,
    <<"sin", <<<<1, <<2272, 4787, 571, 216>>, -52>>>>, <<1, <<14407, 11841, 8342, 254>>, -53>>>>,
    <<"sin", <<<<1, <<8658, 32358, 26097, 150>>, -51>>>>, <<1, <<15309, 19710, 633, 181>>, -53>>>>,
    <<"sin", <<<<1, <<17084, 22340, 20286, 172>>, -51>>>>, <<1, <<12561, 17822, 4128, 220>>, -54>>>>,
    <<"sin", <<<<1, <<11544, 10376, 2029, 201>>, -51>>>>, <<1, <<23559, 26152, 6296, 141>>, -105>>>>,
    <<"sin", <<<<1, <<9944, 28654, 10560, 205>>, -51>>>>, <<-1, <<3065, 7558, 7567, 136>>, -56>>>>,
    <<"sin", <<<<1, <<5052, 30089, 27333, 209>>, -51>>>>, <<-1, <<7184, 8221, 30038, 139>>, -55>>>>,
    <<"sqrt", <<<<-1, <<0, 0, 0, 128>>, -104>>>>, <<2, <<>>, 0>>>>,
    <<"sqrt", <<<<0, <<>>, 0>>>>, <<0, <<>>, 0>>>>,
    <<"sqrt", <<<<1, <<23879, 2836, 24378, 155>>, -161>>>>, <<1, <<3797, 31751, 22146, 199>>, -107>>>>,
    <<"sqrt", <<<<1, <<24733, 6607, 1563, 151>>, -158>>>>, <<1, <<24263, 18977, 1544, 139>>, -105>>>>,
    <<"sqrt", <<<<1, <<28986, 12228, 19660, 175>>, -106>>>>, <<1, <<16109, 3459, 30233, 149>>, -79>>>>,
    <<"sqrt", <<<<1, <<28986, 12228, 19660, 175>>, -105>>>>, <<1, <<12572, 20306, 741, 212>>, -79>>>>,
    <<"sqrt", <<<<1, <<3464, 15286, 16383, 219>>, -104>>>>, <<1, <<26081, 18460, 20270, 167>>, -78>>>>,
    <<"sqrt", <<<<1, <<26731, 21841, 6143, 137>>, -99>>>>, <<1, <<11937, 12516, 13215, 187>>, -76>>>>,
    <<"sqrt", <<<<1, <<883, 16925, 30207, 198>>, -96>>>>, <<1, <<20128, 16730, 18617, 159>>, -74>>>>,
    <<"sqrt", <<<<1, <<6150, 12664, 4388, 170>>, -93>>>>, <<1, <<28227, 7935, 22827, 208>>, -73>>>>,
    <<"sqrt", <<<<1, <<7399, 13561, 4911, 241>>, -90>>>>, <<1, <<28713, 13781, 22629, 175>>, -71>>>>,
    <<"sqrt", <<<<1, <<16454, 21683, 5579, 139>>, -89>>>>, <<1, <<3056, 9345, 24665, 188>>, -71>>>>,
    <<"sqrt", <<<<1, <<15374, 32555, 12927, 249>>, -89>>>>, <<1, <<30475, 23812, 22140, 252>>, -71>>>>,
    <<"sqrt", <<<<1, <<22937, 28908, 17692, 161>>, -86>>>>, <<1, <<17900, 6032, 26063, 143>>, -69>>>>,
    <<"sqrt", <<<<1, <<22941, 28908, 17692, 161>>, -86>>>>, <<1, <<17902, 6032, 26063, 143>>, -69>>>>,
    <<"sqrt", <<<<1, <<9943, 20673, 1398, 167>>, -85>>>>, <<1, <<11422, 29577, 25951, 206>>, -69>>>>,
    <<"sqrt", <<<<1, <<12307, 4154, 794, 161>>, -84>>>>, <<1, <<25961, 30359, 18535, 143>>, -68>>>>,
    <<"sqrt", <<<<1, <<27121, 1778, 27269, 130>>, -81>>>>, <<1, <<21586, 21120, 361, 183>>, -67>>>>,
    <<"sqrt", <<<<1, <<19544, 12210, 28840, 132>>, -81>>>>, <<1, <<8470, 512, 14347, 184>>, -67>>>>,
    <<"sqrt", <<<<1, <<3200, 17725, 8160, 159>>, -60>>>>, <<1, <<9372, 22864, 25300, 142>>, -56>>>>,
    <<"sqrt", <<<<1, <<3290, 17725, 8160, 159>>, -60>>>>, <<1, <<9412, 22864, 25300, 142>>, -56>>>>,
    <<"sqrt", <<<<1, <<23424, 20161, 14287, 159>>, -60>>>>, <<1, <<22936, 14943, 28046, 142>>, -56>>>>,
    <<"sqrt", <<<<1, <<24960, 26549, 14678, 159>>, -60>>>>, <<1, <<20764, 23252, 28221, 142>>, -56>>>>,
    <<"sqrt", <<<<1, <<24987, 26549, 14678, 159>>, -60>>>>, <<1, <<20776, 23252, 28221, 142>>, -56>>>>,
    <<"sqrt", <<<<1, <<25074, 26549, 14678, 159>>, -60>>>>, <<1, <<20815, 23252, 28221, 142>>, -56>>>>,
    <<"sqrt", <<<<1, <<7552, 4395, 14679, 159>>, -60>>>>, <<1, <<10834, 28007, 28221, 142>>, -56>>>>,
    <<"sqrt", <<<<1, <<22656, 3745, 14680, 159>>, -60>>>>, <<1, <<32293, 9627, 28222, 142>>, -56>>>>,
    <<"sqrt", <<<<1, <<22780, 3745, 14680, 159>>, -60>>>>, <<1, <<32348, 9627, 28222, 142>>, -56>>>>,
    <<"sqrt", <<<<1, <<21888, 30538, 14691, 159>>, -60>>>>, <<1, <<27058, 19266, 28227, 142>>, -56>>>>,
    <<"sqrt", <<<<1, <<24576, 28460, 29809, 248>>, -60>>>>, <<1, <<30626, 9943, 16218, 178>>, -56>>>>,
    <<"sqrt", <<<<1, <<31360, 16241, 29811, 248>>, -60>>>>, <<1, <<290, 29061, 16218, 178>>, -56>>>>,
    <<"sqrt", <<<<1, <<12288, 6005, 15483, 200>>, -58>>>>, <<1, <<21361, 20304, 6189, 160>>, -55>>>>,
    <<"sqrt", <<<<1, <<12298, 6005, 15483, 200>>, -58>>>>, <<1, <<21365, 20304, 6189, 160>>, -55>>>>,
    <<"sqrt", <<<<1, <<13168, 18676, 13790, 211>>, -56>>>>, <<1, <<29503, 9477, 16545, 164>>, -54>>>>,
    <<"sqrt", <<<<1, <<13169, 18676, 13790, 211>>, -56>>>>, <<1, <<29503, 9477, 16545, 164>>, -54>>>>,
    <<"sqrt", <<<<1, <<30172, 1069, 10097, 155>>, -55>>>>, <<1, <<26195, 27672, 12985, 199>>, -54>>>>,
    <<"sqrt", <<<<1, <<30174, 1069, 10097, 155>>, -55>>>>, <<1, <<26196, 27672, 12985, 199>>, -54>>>>,
    <<"sqrt", <<<<1, <<31165, 12474, 29589, 208>>, -55>>>>, <<1, <<6250, 17317, 8376, 231>>, -54>>>>,
    <<"sqrt", <<<<1, <<32235, 13826, 29589, 208>>, -55>>>>, <<1, <<17723, 18065, 8376, 231>>, -54>>>>,
    <<"sqrt", <<<<1, <<566, 22793, 29589, 208>>, -55>>>>, <<1, <<7886, 23028, 8376, 231>>, -54>>>>,
    <<"sqrt", <<<<1, <<18628, 12262, 969, 142>>, -54>>>>, <<1, <<16867, 11879, 27277, 134>>, -53>>>>,
    <<"sqrt", <<<<1, <<8989, 16634, 17893, 211>>, -54>>>>, <<1, <<5660, 9336, 18141, 164>>, -53>>>>,
    <<"sqrt", <<<<1, <<6264, 13497, 12179, 220>>, -54>>>>, <<1, <<20435, 624, 31166, 167>>, -53>>>>,
    <<"sqrt", <<<<1, <<6265, 13497, 12179, 220>>, -54>>>>, <<1, <<20436, 624, 31166, 167>>, -53>>>>,
    <<"sqrt", <<<<1, <<6266, 13497, 12179, 220>>, -54>>>>, <<1, <<20436, 624, 31166, 167>>, -53>>>>,
    <<"sqrt", <<<<1, <<15582, 27970, 32767, 255>>, -54>>>>, <<1, <<9376, 18014, 633, 181>>, -53>>>>,
    <<"sqrt", <<<<1, <<32766, 32767, 32767, 255>>, -54>>>>, <<1, <<15308, 19710, 633, 181>>, -53>>>>,
    <<"sqrt", <<<<1, <<32767, 32767, 32767, 255>>, -54>>>>, <<1, <<15308, 19710, 633, 181>>, -53>>>>,
    <<"sqrt", <<<<1, <<0, 0, 0, 128>>, -53>>>>, <<1, <<15309, 19710, 633, 181>>, -53>>>>,
    <<"sqrt", <<<<1, <<1, 0, 0, 128>>, -53>>>>, <<1, <<15309, 19710, 633, 181>>, -53>>>>,
    <<"sqrt", <<<<1, <<24977, 2398, 0, 128>>, -53>>>>, <<1, <<21241, 21406, 633, 181>>, -53>>>>,
    <<"sqrt", <<<<1, <<13251, 9635, 26678, 145>>, -53>>>>, <<1, <<7223, 26946, 6738, 193>>, -53>>>>,
    <<"sqrt", <<<<1, <<13252, 9635, 26678, 145>>, -53>>>>, <<1, <<7223, 26946, 6738, 193>>, -53>>>>,
    <<"sqrt", <<<<1, <<28274, 8066, 7437, 150>>, -53>>>>, <<1, <<20538, 17822, 3518, 196>>, -53>>>>,
    <<"sqrt", <<<<1, <<23454, 10252, 32283, 184>>, -53>>>>, <<1, <<26044, 22450, 20146, 217>>, -53>>>>,
    <<"sqrt", <<<<1, <<24434, 18877, 25370, 203>>, -53>>>>, <<1, <<28621, 30238, 13081, 228>>, -53>>>>,
    <<"sqrt", <<<<1, <<8325, 21119, 25370, 203>>, -53>>>>, <<1, <<2115, 31495, 13081, 228>>, -53>>>>,
    <<"sqrt", <<<<1, <<8593, 21457, 25370, 203>>, -53>>>>, <<1, <<16116, 31684, 13081, 228>>, -53>>>>,
    <<"sqrt", <<<<1, <<17032, 24308, 5667, 217>>, -53>>>>, <<1, <<14947, 29849, 25841, 235>>, -53>>>>,
    <<"sqrt", <<<<1, <<17033, 24308, 5667, 217>>, -53>>>>, <<1, <<14947, 29849, 25841, 235>>, -53>>>>,
    <<"sqrt", <<<<1, <<14738, 5857, 18756, 229>>, -53>>>>, <<1, <<21930, 15268, 13970, 242>>, -53>>>>,
    <<"sqrt", <<<<1, <<10880, 4932, 24092, 249>>, -53>>>>, <<1, <<25692, 10335, 27794, 252>>, -53>>>>,
    <<"sqrt", <<<<1, <<3595, 3201, 1815, 254>>, -53>>>>, <<1, <<5538, 26672, 846, 255>>, -53>>>>,
    <<"sqrt", <<<<1, <<21312, 3617, 1815, 254>>, -53>>>>, <<1, <<7697, 26881, 846, 255>>, -53>>>>,
    <<"sqrt", <<<<1, <<13653, 7185, 24717, 254>>, -53>>>>, <<1, <<10377, 23630, 12333, 255>>, -53>>>>,
    <<"sqrt", <<<<1, <<24142, 10210, 24717, 254>>, -53>>>>, <<1, <<21971, 25146, 12333, 255>>, -53>>>>,
    <<"sqrt", <<<<1, <<24143, 10210, 24717, 254>>, -53>>>>, <<1, <<21971, 25146, 12333, 255>>, -53>>>>,
    <<"sqrt", <<<<1, <<21701, 10461, 24717, 254>>, -53>>>>, <<1, <<14405, 25272, 12333, 255>>, -53>>>>,
    <<"sqrt", <<<<1, <<19004, 10544, 24717, 254>>, -53>>>>, <<1, <<32758, 25313, 12333, 255>>, -53>>>>,
    <<"sqrt", <<<<1, <<19005, 10544, 24717, 254>>, -53>>>>, <<1, <<32759, 25313, 12333, 255>>, -53>>>>,
    <<"sqrt", <<<<1, <<15945, 12386, 24720, 254>>, -53>>>>, <<1, <<7257, 9973, 12335, 255>>, -53>>>>,
    <<"sqrt", <<<<1, <<17126, 8053, 24768, 254>>, -53>>>>, <<1, <<18515, 9720, 12359, 255>>, -53>>>>,
    <<"sqrt", <<<<1, <<17127, 8053, 24768, 254>>, -53>>>>, <<1, <<18515, 9720, 12359, 255>>, -53>>>>,
    <<"sqrt", <<<<1, <<15711, 32236, 32767, 255>>, -53>>>>, <<1, <<7855, 32502, 32767, 255>>, -53>>>>,
    <<"sqrt", <<<<1, <<21996, 32244, 32767, 255>>, -53>>>>, <<1, <<10998, 32506, 32767, 255>>, -53>>>>,
    <<"sqrt", <<<<1, <<15987, 32687, 32767, 255>>, -53>>>>, <<1, <<24377, 32727, 32767, 255>>, -53>>>>,
    <<"sqrt", <<<<1, <<7842, 32726, 32767, 255>>, -53>>>>, <<1, <<3921, 32747, 32767, 255>>, -53>>>>,
    <<"sqrt", <<<<1, <<26460, 32747, 32767, 255>>, -53>>>>, <<1, <<29614, 32757, 32767, 255>>, -53>>>>,
    <<"sqrt", <<<<1, <<3382, 32764, 32767, 255>>, -53>>>>, <<1, <<1691, 32766, 32767, 255>>, -53>>>>,
    <<"sqrt", <<<<1, <<27049, 32765, 32767, 255>>, -53>>>>, <<1, <<29908, 32766, 32767, 255>>, -53>>>>,
    <<"sqrt", <<<<1, <<3802, 32766, 32767, 255>>, -53>>>>, <<1, <<1901, 32767, 32767, 255>>, -53>>>>,
    <<"sqrt", <<<<1, <<27324, 32767, 32767, 255>>, -53>>>>, <<1, <<30046, 32767, 32767, 255>>, -53>>>>,
    <<"sqrt", <<<<1, <<31972, 32767, 32767, 255>>, -53>>>>, <<1, <<32370, 32767, 32767, 255>>, -53>>>>,
    <<"sqrt", <<<<1, <<32699, 32767, 32767, 255>>, -53>>>>, <<1, <<32733, 32767, 32767, 255>>, -53>>>>,
    <<"sqrt", <<<<1, <<32765, 32767, 32767, 255>>, -53>>>>, <<1, <<32766, 32767, 32767, 255>>, -53>>>>,
    <<"sqrt", <<<<1, <<32767, 32767, 32767, 255>>, -53>>>>, <<1, <<32767, 32767, 32767, 255>>, -53>>>>,
    <<"sqrt", <<<<1, <<0, 0, 0, 128>>, -52>>>>, <<1, <<0, 0, 0, 128>>, -52>>>>,
    <<"sqrt", <<<<1, <<1, 0, 0, 128>>, -52>>>>, <<1, <<0, 0, 0, 128>>, -52>>>>
}

Libm(name, args) ==
    IF \E i \in 1..Len(args) : args[i] = DNaN THEN DNaN
    ELSE (CHOOSE e \in LibmTable : e[1] = name /\ e[2] = args)[3]

(***************************************************************************)
(* The distances.                                                          *)
(***************************************************************************)
\* the 32 low bits carried over without the sign
ToUint64ZeroExtended(x) ==
    IF x < 0 THEN BSub(BShl(<<1>>, 32), BFromNat(-x)) ELSE BFromNat(x)

\* static_cast<std::int32_t> to std::uint64_t: the value modulo 2^64
ToUint64(x) ==
    IF x < 0 THEN BSub(BShl(<<1>>, 64), BFromNat(-x)) ELSE BFromNat(x)

\* a modulo 2^64: four limbs and the four low bits of the fifth
Uint64(a) == BNorm([i \in 1..5 |-> IF i < 5 THEN Limb(a, i) ELSE Limb(a, i) % 16])

\* dx * dx + dy * dy in std::uint64_t
squaredEuclideanDistance(lhs, rhs) ==
    Uint64(BAdd(Uint64(BMulFrom(ToUint64(Lon(lhs) - Lon(rhs)),
                                ToUint64(Lon(lhs) - Lon(rhs)), 1)),
                Uint64(BMulFrom(ToUint64(Lat(lhs) - Lat(rhs)),
                                ToUint64(Lat(lhs) - Lat(rhs)), 1))))

\* detail::DEGREE_TO_RAD = 0.017453292519943295769236907684886
DEGREE_TO_RAD == <<1, <<7481, 17573, 32026, 142>>, -58>>

\* detail::EARTH_RADIUS = 6372797.560856
EARTH_RADIUS == <<1, <<4240, 18378, 15805, 194>>, -30>>

\* (fixed / COORDINATE_PRECISION) * detail::DEGREE_TO_RAD
ToRadians(x) == DMul(toFloating(x), DEGREE_TO_RAD)

\* a product one of whose factors may be NaN
DMulNaN(a, b) == IF a = DNaN \/ b = DNaN THEN DNaN ELSE DMul(a, b)

\* aharv
HaversineA(coordinate_1, coordinate_2) ==
    DAdd(Libm("pow", <<Libm("sin", <<DDiv(DSub(ToRadians(Lat(coordinate_1)),
                                               ToRadians(Lat(coordinate_2))),
                                          DFromInt(2))>>),
                       DFromInt(2)>>),
         DMul(DMul(Libm("cos", <<ToRadians(Lat(coordinate_1))>>),
                   Libm("cos", <<ToRadians(Lat(coordinate_2))>>)),
              Libm("pow", <<Libm("sin", <<DDiv(DSub(ToRadians(Lon(coordinate_1)),
                                                    ToRadians(Lon(coordinate_2))),
                                               DFromInt(2))>>),
                            DFromInt(2)>>)))

\* EARTH_RADIUS * (2 * atan2(sqrt(aharv), sqrt(1 - aharv)))
haversineDistance(coordinate_1, coordinate_2) ==
    DMulNaN(EARTH_RADIUS,
            DMulNaN(DFromInt(2),
                    Libm("atan2",
                         <<Libm("sqrt", <<HaversineA(coordinate_1, coordinate_2)>>),
                           Libm("sqrt", <<DSub(DOne,
                                               HaversineA(coordinate_1, coordinate_2))>>)>>)))

\* hypot(x_value, y_value) * EARTH_RADIUS
greatCircleDistance(coordinate_1, coordinate_2) ==
    DMul(Libm("hypot",
              <<DMul(DSub(ToRadians(Lon(coordinate_2)), ToRadians(Lon(coordinate_1))),
                     Libm("cos", <<DDiv(DAdd(ToRadians(Lat(coordinate_1)),
                                             ToRadians(Lat(coordinate_2))),
                                        DFromInt(2))>>)),
                DSub(ToRadians(Lat(coordinate_2)), ToRadians(Lat(coordinate_1)))>>),
         EARTH_RADIUS)

\* points at the origin and next to it, at the pole, on the antimeridian,
\* nearly opposite each other on the sphere, and one elsewhere
DistPoints ==
    {<<0, 0>>, <<1, 0>>, <<-1, -1>>, <<0, 90000000>>, <<90000000, 90000000>>,
     <<-180000000, 10000000>>, <<180000000, 10000000>>,
     <<0, 8000000>>, <<180000000, -8000000>>, <<13388860, 52517037>>}

(***************************************************************************)
(* areParallel.  The slopes and the ratio the function computes besides    *)
(* slope_rhs do not reach its result.                                      *)
(***************************************************************************)
degToRad(degree) == DMul(degree, DDiv(DPi, DFromInt(180)))

radToDeg(radian) == DMul(radian, DMul(DFromInt(180), DDiv(DOne, DPi)))

\* while (result < 0.0) result += 360.0; while (result >= 360.0) result -= 360.0;
RECURSIVE WrapBearing(_)
WrapBearing(r) ==
    IF DLess(r, DZero) THEN WrapBearing(DAdd(r, DFromInt(360)))
    ELSE IF ~DLess(r, DFromInt(360)) THEN WrapBearing(DSub(r, DFromInt(360)))
    ELSE r

bearing(first_coordinate, second_coordinate) ==
    WrapBearing(radToDeg(Libm("atan2", <<
        DMul(Libm("sin", <<degToRad(toFloating(Lon(second_coordinate) - Lon(first_coordinate)))>>),
             Libm("cos", <<degToRad(toFloating(Lat(second_coordinate)))>>)),
        DSub(DMul(Libm("cos", <<degToRad(toFloating(Lat(first_coordinate)))>>),
                  Libm("sin", <<degToRad(toFloating(Lat(second_coordinate)))>>)),
             DMul(DMul(Libm("sin", <<degToRad(toFloating(Lat(first_coordinate)))>>),
                       Libm("cos", <<degToRad(toFloating(Lat(second_coordinate)))>>)),
                  Libm("cos", <<degToRad(toFloating(Lon(second_coordinate)
                                                    - Lon(first_coordinate)))>>)))>>)))

rotateCCWAroundZero(coordinate, angle_in_radians) ==
    <<toFixed(DSub(DMul(Libm("cos", <<angle_in_radians>>), toFloating(Lon(coordinate))),
                   DMul(Libm("sin", <<angle_in_radians>>), toFloating(Lat(coordinate))))),
      toFixed(DAdd(DMul(Libm("sin", <<angle_in_radians>>), toFloating(Lon(coordinate))),
                   DMul(Libm("cos", <<angle_in_radians>>), toFloating(Lat(coordinate)))))>>

difference(lhs, rhs) == <<Lon(lhs) - Lon(rhs), Lat(lhs) - Lat(rhs)>>

\* the difference of the two ends of a regression line
RegressionDifference(regression) == difference(regression[1], regression[2])

\* std::numeric_limits<double>::max() when the longitudes are equal
get_slope(from, to) ==
    IF Lon(from) - Lon(to) = 0 THEN <<1, <<32767, 32767, 32767, 255>>, 971>>
    ELSE DDiv(DFromInt(Lat(from) - Lat(to)), DFromInt(Lon(from) - Lon(to)))

\* std::abs(slope_rhs) < 0.1, for slope_rhs the slope of the right line's
\* difference rotated by the left line's bearing less 90 degrees
areParallel(lhs, rhs) ==
    DLess(DAbs(get_slope(<<0, 0>>,
                         rotateCCWAroundZero(
                             RegressionDifference(leastSquareRegression(rhs)),
                             degToRad(DSub(bearing(<<0, 0>>,
                                                   RegressionDifference(
                                                       leastSquareRegression(lhs))),
                                           DFromInt(90)))))),
          DDiv(DFromInt(1), DFromInt(10)))

\* segments along a latitude, along a longitude and steep ones, near the
\* origin and far from it
Segments ==
    {<<<<0, 0>>, <<10, 0>>>>, <<<<0, 5>>, <<10, 5>>>>, <<<<-7, -3>>, <<4, -3>>>>,
     <<<<0, 0>>, <<0, 10>>>>, <<<<3, 0>>, <<4, 10>>>>,
     <<<<-159528231, -87873616>>, <<-159528226, -87873616>>>>,
     <<<<-159528231, -87873615>>, <<-159528222, -87873615>>>>,
     <<<<168164244, -81758946>>, <<168164254, -81758946>>>>,
     <<<<168164244, -81758936>>, <<168164254, -81758936>>>>,
     <<<<168164244, -81758946>>, <<168164245, -81758936>>>>}

(***************************************************************************)
(* findClosestDistance, getDeviations.  The projection on a segment is     *)
(* declared in util/coordinate_calculation.hpp: the nearest point of the   *)
(* segment in the plane of the floating longitudes and latitudes, the      *)
(* ratio clamped to [0, 1], a degenerate segment answering its source.     *)
(***************************************************************************)
\* (p - r) . (q - r) on the floating values
ProjectionDot(p, q, r) ==
    DAdd(DMul(DSub(toFloating(Lon(p)), toFloating(Lon(r))),
              DSub(toFloating(Lon(q)), toFloating(Lon(r)))),
         DMul(DSub(toFloating(Lat(p)), toFloating(Lat(r))),
              DSub(toFloating(Lat(q)), toFloating(Lat(r)))))

\* the normed ratio, clamped to [0, 1]
ProjectionRatio(source, target, coordinate) ==
    DMax(DZero, DMin(DOne, DDiv(ProjectionDot(target, coordinate, source),
                                ProjectionDot(target, target, source))))

\* the ratio and (1 - ratio) * source + target * ratio as a fixed coordinate
ProjectionNearest(source, target, ratio) ==
    <<ratio,
      <<toFixed(DAdd(DMul(DSub(DOne, ratio), toFloating(Lon(source))),
                     DMul(toFloating(Lon(target)), ratio))),
        toFixed(DAdd(DMul(DSub(DOne, ratio), toFloating(Lat(source))),
                     DMul(toFloating(Lat(target)), ratio)))>>>>

\* the pair of the clamped ratio and the nearest point
projectPointOnSegment(source, target, coordinate) ==
    IF DLess(ProjectionDot(target, target, source), DEpsilon)
    THEN <<DZero, source>>
    ELSE ProjectionNearest(source, target,
                           ProjectionRatio(source, target, coordinate))

\* findClosestDistance(coordinate, segment_begin, segment_end)
findClosestDistanceSegment(coordinate, segment_begin, segment_end) ==
    haversineDistance(coordinate,
                      projectPointOnSegment(segment_begin, segment_end, coordinate)[2])

\* std::numeric_limits<double>::max() = (2^53 - 1) * 2^971
DBL_MAX == <<1, <<32767, 32767, 32767, 255>>, 971>>

\* The comparator of the scan.  A scan state is current_min, the calls of the
\* comparator made so far, and what the last call returned.
compute_minimum_distance(state, coordinate, lhs, rhs) ==
    <<DMin(state[1], findClosestDistanceSegment(coordinate, lhs, rhs)),
      Append(state[2], <<lhs, rhs>>),
      FALSE>>

\* a scan that hands the comparator the two ends of the polyline
AdjacentFindEnds(coordinate, coordinates, first, state) ==
    IF Len(coordinates) = 0 THEN state
    ELSE compute_minimum_distance(state, coordinate, coordinates[1],
                                  coordinates[Len(coordinates)])

\* std::adjacent_find from the element at first: the comparator is called on
\* each element and its successor until it returns true or the end is reached
RECURSIVE AdjacentFind(_, _, _, _)
AdjacentFind(coordinate, coordinates, first, state) ==
    IF state[3] \/ first + 1 > Len(coordinates) THEN state
    ELSE AdjacentFind(coordinate, coordinates, first + 1,
                      compute_minimum_distance(state, coordinate, coordinates[first],
                                               coordinates[first + 1]))

\* findClosestDistance(coordinate, coordinates)
findClosestDistance(coordinate, coordinates) ==
    AdjacentFind(coordinate, coordinates, 1, <<DBL_MAX, <<>>, FALSE>>)[1]

\* std::find_if over lhs with compute_minimum_distance_in_rhs, which updates
\* current_min and returns false
RECURSIVE FindIf(_, _, _, _)
FindIf(lhs, rhs, first, current_min) ==
    IF first > Len(lhs) THEN current_min
    ELSE FindIf(lhs, rhs, first + 1,
                DMin(current_min, findClosestDistance(lhs[first], rhs)))

\* findClosestDistance(lhs, rhs)
findClosestDistanceBetween(lhs, rhs) == FindIf(lhs, rhs, 1, DBL_MAX)

\* std::transform of from by find_deviation
getDeviations(from, to) ==
    [i \in 1..Len(from) |-> findClosestDistance(from[i], to)]

VARIABLES op, A, B, C, result, frames, branch

vars == <<op, A, B, C, result, frames, branch>>

\* three points near a base, the first one the base itself, or three points
\* of a sloped line in any order
InitPoints ==
    /\ \E b \in Bases :
          \/ A = b /\ B \in Points(b) /\ C \in Points(b)
          \/ A \in LinePoints(b) /\ B \in LinePoints(b) /\ C \in LinePoints(b)
    /\ op = "init"
    /\ result = DZero
    /\ frames = <<>>
    /\ branch = "none"

Call(name, value) ==
    /\ op = "init"
    /\ op' = name
    /\ result' = value
    /\ UNCHANGED <<A, B, C, frames, branch>>

NextArea ==
    \/ Call("signedArea", signedArea(A, B, C))
    \/ Call("isCCW", isCCW(A, B, C))

SpecArea == InitPoints /\ [][NextArea]_vars

Frame == frames[Len(frames)]

CircleCenterCall ==
    /\ op = "init"
    /\ op' = "circleCenter"
    /\ frames' = <<<<A, B, C>>>>
    /\ UNCHANGED <<A, B, C, result, branch>>

CircleReturn(name, value) ==
    /\ op' = "done"
    /\ branch' = name
    /\ result' = value
    /\ UNCHANGED <<A, B, C, frames>>

CircleRecurse(name, f) ==
    /\ frames' = Append(frames, f)
    /\ branch' = name
    /\ UNCHANGED <<op, A, B, C, result>>

CircleNotDistinct ==
    /\ op = "circleCenter"
    /\ NotDistinct(Frame)
    /\ CircleReturn("not distinct", <<"none">>)

CircleCollinearInXOrY ==
    /\ op = "circleCenter"
    /\ ~NotDistinct(Frame)
    /\ CollinearInXOrY(Frame)
    /\ CircleReturn("collinear in x or y", <<"none">>)

CircleVerticalC2C1 ==
    /\ op = "circleCenter"
    /\ ~NotDistinct(Frame)
    /\ ~CollinearInXOrY(Frame)
    /\ VerticalC2C1(Frame)
    /\ IF AssertVerticalC2C1(Frame)
       THEN CircleRecurse("vertical C2C1", ReorderVerticalC2C1(Frame))
       ELSE CircleReturn("assertion failed", <<"abort">>)

CircleVerticalC3C2 ==
    /\ op = "circleCenter"
    /\ ~NotDistinct(Frame)
    /\ ~CollinearInXOrY(Frame)
    /\ ~VerticalC2C1(Frame)
    /\ VerticalC3C2(Frame)
    /\ IF AssertVerticalC3C2(Frame)
       THEN CircleRecurse("vertical C3C2", ReorderVerticalC3C2(Frame))
       ELSE CircleReturn("assertion failed", <<"abort">>)

NoVerticalChord(f) ==
    ~NotDistinct(f) /\ ~CollinearInXOrY(f) /\ ~VerticalC2C1(f) /\ ~VerticalC3C2(f)

CircleZeroSlope ==
    /\ op = "circleCenter"
    /\ NoVerticalChord(Frame)
    /\ ZeroSlopeC2C1(Frame)
    /\ CircleRecurse("zero slope", ReorderZeroSlope(Frame))

CircleParallel ==
    /\ op = "circleCenter"
    /\ NoVerticalChord(Frame)
    /\ ~ZeroSlopeC2C1(Frame)
    /\ ParallelSlopes(Frame)
    /\ CircleReturn("parallel", <<"none">>)

CircleSolve ==
    /\ op = "circleCenter"
    /\ NoVerticalChord(Frame)
    /\ ~ZeroSlopeC2C1(Frame)
    /\ ~ParallelSlopes(Frame)
    /\ CircleReturn("solve", SolveCenter(Frame))

CircleStep ==
    \/ CircleNotDistinct
    \/ CircleCollinearInXOrY
    \/ CircleVerticalC2C1
    \/ CircleVerticalC3C2
    \/ CircleZeroSlope
    \/ CircleParallel
    \/ CircleSolve

NextCircle == CircleCenterCall \/ CircleStep

SpecCircle == InitPoints /\ [][NextCircle]_vars

\* the result holds the factor and the point returned
NextInterp ==
    \/ \E factor \in Factors :
          Call("interpolateLinear", <<factor, interpolateLinear(factor, A, B)>>)
    \/ \E factor \in Factors :
          Call("interpolateSame", <<factor, interpolateLinear(factor, A, A)>>)

SpecInterp == InitPoints /\ [][NextInterp]_vars

NextRegress ==
    \/ Call("leastSquareRegression2", leastSquareRegression(<<A, B>>))
    \/ Call("leastSquareRegression3", leastSquareRegression(<<A, B, C>>))

SpecRegress == InitPoints /\ [][NextRegress]_vars

\* the arguments are drawn from S, T and U
InitAmong(S, T, U) ==
    /\ A \in S
    /\ B \in T
    /\ C \in U
    /\ op = "init"
    /\ result = DZero
    /\ frames = <<>>
    /\ branch = "none"

NextAngle == Call("computeAngle", computeAngle(A, B, C))

SpecAngle == InitAmong(AnglePoints, AnglePoints, AnglePoints) /\ [][NextAngle]_vars

NextDist ==
    \/ Call("squaredEuclideanDistance", squaredEuclideanDistance(A, B))
    \/ Call("haversineDistance", haversineDistance(A, B))
    \/ Call("greatCircleDistance", greatCircleDistance(A, B))

SpecDist == InitAmong(DistPoints, DistPoints, {<<0, 0>>}) /\ [][NextDist]_vars

\* A and B hold the two polylines
NextParallel == Call("areParallel", areParallel(A, B))

SpecParallel == InitAmong(Segments, Segments, {<<0, 0>>}) /\ [][NextParallel]_vars

\* B holds the polyline searched (coordinates, rhs, to), A the other polyline
\* (lhs, from) and C the coordinate; frames holds the comparator calls that
\* the scan of findClosestDistance(C, B) made
NextClosest ==
    \/ /\ op = "init"
       /\ op' = "findClosestDistance"
       /\ result' = findClosestDistance(C, B)
       /\ frames' = AdjacentFind(C, B, 1, <<DBL_MAX, <<>>, FALSE>>)[2]
       /\ UNCHANGED <<A, B, C, branch>>
    \/ Call("findClosestDistanceBetween", findClosestDistanceBetween(A, B))
    \/ Call("getDeviations", getDeviations(A, B))

\* polylines of no, one, two and three points, one of them a bend whose ends
\* are nearer to the first coordinate than its two segments, and two of them
\* on the meridian opposite to the second coordinate
SpecClosest ==
    /\ InitAmong({<<>>,
                  <<<<0, 0>>, <<2000, 0>>>>,
                  <<<<0, 0>>, <<1000, 5000>>, <<2000, 0>>>>},
                 {<<>>,
                  <<<<0, 0>>>>,
                  <<<<0, 0>>, <<2000, 0>>>>,
                  <<<<0, 0>>, <<1000, 5000>>, <<2000, 0>>>>,
                  <<<<180000000, -8000000>>, <<180000000, -8000001>>>>,
                  <<<<180000000, -8000000>>, <<180000000, -8000001>>, <<0, 0>>>>},
                 {<<1000, -10>>, <<0, 8000000>>, <<0, 0>>, <<500, 300>>})
    /\ [][NextClosest]_vars

\* C1: circleCenter terminates: no call is made twice with the same arguments
\* (the permutations never cycle), and no input takes more than three calls
\* to reach a 'no center' return or the solver.
C1_CircleCenterTerminates ==
    /\ Len(frames) <= 3
    /\ \A i \in 1..Len(frames) : \A j \in 1..Len(frames) :
          i # j => frames[i] # frames[j]

\* a call that went through two recursive calls before it returned
C1_ThreeCallsDeep == op = "done" /\ Len(frames) = 3

\* C2: for three coordinates on one straight line (same longitude, same
\* latitude, or a common sloped line), in any order, circleCenter returns
\* 'no center'.
C2_CollinearHasNoCenter ==
    (op = "done" /\ (Lon(B) - Lon(A)) * (Lat(C) - Lat(A)) = (Lat(B) - Lat(A)) * (Lon(C) - Lon(A)))
        => result = <<"none">>

\* three distinct points of a sloped line whose chords' slopes differ in the
\* last bits: the solver runs and its center is out of bounds
C2_SlopedLineReachesSolver ==
    /\ op = "done"
    /\ (Lon(B) - Lon(A)) * (Lat(C) - Lat(A)) = (Lat(B) - Lat(A)) * (Lon(C) - Lon(A))
    /\ branch = "solve"
    /\ result = <<"none">>

\* C3 as stated: leastSquareRegression on exactly two points returns those two
\* points unchanged, whether or not they share a longitude.
C3_TwoPointsUnchanged ==
    op = "leastSquareRegression2" => result = <<A, B>>

\* C3 amended: leastSquareRegression on exactly two points that share a
\* longitude returns those two points unchanged (the divisor of the fit is
\* exactly zero and the fallback returns the front and the back).
C3_SameLongitudeUnchanged ==
    (op = "leastSquareRegression2" /\ Lon(A) = Lon(B)) => result = <<A, B>>

\* two different points on one longitude, returned as they are
C3_SameLongitudePair ==
    /\ op = "leastSquareRegression2"
    /\ Lon(A) = Lon(B)
    /\ A # B
    /\ result = <<A, B>>

\* C4: interpolateLinear(0, A, B) = A, interpolateLinear(1, A, B) = B, and
\* interpolateLinear(t, A, A) = A for every factor t in [0, 1].
C4_InterpolateEnds ==
    /\ (op = "interpolateLinear" /\ result[1] = DZero) => result[2] = A
    /\ (op = "interpolateLinear" /\ result[1] = DOne) => result[2] = B
    /\ op = "interpolateSame" => result[2] = A

\* factor 1 between two different points
C4_InterpolateToEnd ==
    /\ op = "interpolateLinear"
    /\ result[1] = DOne
    /\ A # B
    /\ result[2] = B

\* C7: for non-collinear A, B, C the sign of signedArea is the same for the
\* cyclic permutations and the opposite for the swaps of two arguments, and
\* isCCW(A,B,C) = isCCW(B,C,A) = isCCW(C,A,B) = ~isCCW(B,A,C).
C7_AreaSignUnderPermutation ==
    (op = "signedArea"
     /\ (Lon(B) - Lon(A)) * (Lat(C) - Lat(A)) # (Lat(B) - Lat(A)) * (Lon(C) - Lon(A))) =>
        /\ result[1] = signedArea(B, C, A)[1]
        /\ result[1] = signedArea(C, A, B)[1]
        /\ result[1] = -signedArea(B, A, C)[1]
        /\ result[1] = -signedArea(A, C, B)[1]
        /\ result[1] = -signedArea(C, B, A)[1]
        /\ isCCW(A, B, C) = isCCW(B, C, A)
        /\ isCCW(A, B, C) = isCCW(C, A, B)
        /\ isCCW(A, B, C) = ~isCCW(B, A, C)

\* C5: the angle computeAngle returns lies in [0, 360): it is never negative
\* and never 360 or more.
C5_AngleBelow360 ==
    op = "computeAngle" =>
        /\ ~DLess(result, DZero)
        /\ DLess(result, DFromInt(360))

\* C6: computeAngle returns exactly 180 whenever the middle point coincides
\* with the first or with the third point.
C6_CoincidentIsStraight ==
    (op = "computeAngle" /\ (A = B \/ B = C)) => result = DFromInt(180)

\* the middle point coincides with the third only, and 180 was returned
C6_MiddleEqualsThird ==
    op = "computeAngle" /\ A # B /\ B = C /\ result = DFromInt(180)

\* C8: each of the three distances is the same for (A, B) and for (B, A),
\* the squared one also where a negative delta is carried into 64 unsigned
\* bits before it is squared.
C8_DistancesSymmetric ==
    /\ op = "haversineDistance" => result = haversineDistance(B, A)
    /\ op = "greatCircleDistance" => result = greatCircleDistance(B, A)
    /\ op = "squaredEuclideanDistance" => result = squaredEuclideanDistance(B, A)

\* a squared distance with a negative longitude delta
C8_NegativeDeltaSquared ==
    /\ op = "squaredEuclideanDistance"
    /\ Lon(A) < Lon(B)
    /\ result # <<>>
    /\ result = squaredEuclideanDistance(B, A)

\* C9: haversineDistance(A, A) = 0, and for A # B the distance is strictly
\* positive.
C9_ZeroIffIdentical ==
    op = "haversineDistance" =>
        /\ A = B => result = DZero
        /\ A # B => (result # DNaN /\ DLess(DZero, result))

\* C10: areParallel is true for two segments along different latitudes, and
\* false for a segment along a latitude paired with a roughly vertical one,
\* in either order.
C10_HorizontalAndVertical ==
    op = "areParallel" =>
        /\ (/\ Lat(A[1]) = Lat(A[2]) /\ Lon(A[1]) # Lon(A[2])
            /\ Lat(B[1]) = Lat(B[2]) /\ Lon(B[1]) # Lon(B[2])
            /\ Lat(A[1]) # Lat(B[1])) => result = TRUE
        /\ (/\ Lat(A[1]) = Lat(A[2]) /\ Lon(A[1]) # Lon(A[2])
            /\ Lon(B[2]) - Lon(B[1]) \in {0, 1} /\ Lat(B[2]) - Lat(B[1]) = 10)
              => result = FALSE
        /\ (/\ Lat(B[1]) = Lat(B[2]) /\ Lon(B[1]) # Lon(B[2])
            /\ Lon(A[2]) - Lon(A[1]) \in {0, 1} /\ Lat(A[2]) - Lat(A[1]) = 10)
              => result = FALSE

C11_MinimumOverAdjacentPairs ==
    (op = "findClosestDistance" /\ Len(B) >= 2) =>
        /\ frames = [i \in 1..(Len(B) - 1) |-> <<B[i], B[i + 1]>>]
        /\ \E i \in 1..(Len(B) - 1) :
              result = findClosestDistanceSegment(C, B[i], B[i + 1])
        /\ \A i \in 1..(Len(B) - 1) :
              ~DLess(findClosestDistanceSegment(C, B[i], B[i + 1]), result)

\* C13: a polyline of fewer than two points makes findClosestDistance(point,
\* polyline) return the largest finite double without a call of the
\* comparator; findClosestDistance(lhs, rhs) returns it when lhs is empty or
\* rhs has fewer than two points, and getDeviations(from, to) then holds it
\* for every point of from.
C13_SentinelWithoutSegment ==
    /\ (op = "findClosestDistance" /\ Len(B) < 2) =>
          result = DBL_MAX /\ frames = <<>>
    /\ (op = "findClosestDistanceBetween" /\ (Len(A) = 0 \/ Len(B) < 2)) =>
          result = DBL_MAX
    /\ (op = "getDeviations" /\ Len(B) < 2) =>
          result = [i \in 1..Len(A) |-> DBL_MAX]

\* the deviations of a polyline of three points from a polyline of one point
C13_DeviationsFromOnePoint ==
    /\ op = "getDeviations"
    /\ Len(A) = 3
    /\ Len(B) = 1
    /\ result = <<DBL_MAX, DBL_MAX, DBL_MAX>>

====
